---- MODULE Spec2Model ----
(***************************************************************************)
(* A model of the CAR ingestion pipeline of the pinning gateway:            *)
(*   - getPinningAPIStatus  (packages/api/src/pins.js)                      *)
(*   - carStat, cumulativeSize, toPins, handleCarUpload                     *)
(*                          (packages/api/src/car.js)                       *)
(*   - backupPins           (packages/cron/src/jobs/pins-backup.js)         *)
(* Four specifications share the variables: SpecAgg runs the pin status    *)
(* aggregator on bounded inputs, SpecCar runs carStat block by block,       *)
(* SpecUpload runs one handleCarUpload request with its background tasks,   *)
(* and SpecBackup runs one backupPins job over its candidates.              *)
(***************************************************************************)
EXTENDS Integers, Sequences, FiniteSets, TLC

VARIABLES
  \* ---- getPinningAPIStatus
  pins,          \* the argument: a list of pin records
  apiStatus,     \* the value returned, "none" before the call
  \* ---- carStat
  roots,         \* blocksIterator.getRoots()
  carPc,         \* "roots" | "stream" | "done"
  rawRootBlock,  \* local of carStat
  blocks,        \* local of carStat
  size,          \* local of carStat
  carResult,     \* "pending" | "ok" | the message of the Error thrown
  pulled,        \* history: number of blocks the iterator has yielded
  maxLen,        \* history: largest byteLength the iterator has yielded
  rootAt,        \* history: position in the stream of the block retained as root
  rejected,      \* history: the block the size test rejected
  streamed,      \* history: sum of the byteLength of the blocks the iterator has yielded
  firstRoot,     \* history: the first block counted whose CID is the root
  dupSeen,       \* history: a block with the CID of the root was counted after firstRoot
  \* ---- handleCarUpload
  upPc,          \* position of the handler: "carStat" | "add" | "status" | "create" | "done"
  response,      \* "none" | "ok" | the message of the Error the handler fails with
  waitUntil,     \* whether ctx.waitUntil exists
  dagSize,       \* local of handleCarUpload
  upPins,        \* local `pins` of handleCarUpload: the initial snapshot
  attempts,      \* create-upload calls made so far by retry()
  incPc,         \* storage-usage task: "none" | "query" | "done"
  recPc,         \* reconciliation task: "none" | "sleep" | "status" | "upsert" | "done" | "fault"
  start,         \* local of the reconciliation task
  recEnd,        \* history: the time at which the reconciliation task ended
  okPins,        \* local of the reconciliation task: pins left to upsert
  \* ---- collaborators
  now,           \* Date.now()
  cluster,       \* the cluster's peerMap for the content
  addCalls,      \* history: calls of cluster.add
  addLocal,      \* history: the `local` option of the latest cluster.add: "none" | "true" | "false"
  statusCalls,   \* history: calls of cluster.status
  uploads,       \* persistence: the Upload records
  createOk,      \* history: create-upload mutations that succeeded
  okBeforeDeadline,  \* history: the cluster reported an OK replica before start + MAX_PIN_STATUS_CHECK_TIME
  dbPins,        \* persistence: the Pin rows of the content, by peer
  pinUpserts,    \* history: CREATE_OR_UPDATE_PIN mutations applied
  usedStorage,   \* persistence: the user's used storage
  \* ---- backupPins
  bkPc,          \* "query" | "next" | "batch" | "done" | "aborted"
  concurrency,   \* the option of backupPins
  items,         \* the stage of each candidate of getPinsNotBackedUp, in order
  taken,         \* candidates the batching has pulled from the source so far
  batchStart,    \* index of the first candidate of the batch in progress
  totalProcessed,   \* local of backupPins
  totalSuccessful,  \* local of backupPins
  backupUrls,    \* persistence: backup_urls of each psa_pin_request row, by position
  lastExport,    \* history: the latest run of ipfsDagExport: its item, DAG, limit and outcome
  \* ---- parseCid
  cidA,          \* the argument of a first call
  cidB,          \* the argument of a second call
  outA,          \* what parseCid(cidA) returned or threw, NotCalled before the call
  outB,          \* what parseCid(cidB) returned or threw
  outAA,         \* what parseCid(outA) returned or threw
  \* ---- the pin table and pinGet
  pinTable,      \* persistence: the rows of the pin table
  dbCalls,       \* history: create_upload and upsert_pin calls made
  lastUpsert,    \* history: by content and peer, the status of the last pin written
  pgParam,       \* request.params.requestId
  pgResponse,    \* "none" | "ok" | "notFound" | the details of the error response
  pgStatus,      \* the status of the response of the latest pinGet
  pgPrev,        \* history: the status of the response of the pinGet before it
  pgFresh,       \* history: no pin was written since the latest pinGet
  yielded,       \* the latest run of getPinsNotBackedUp: its limit, the backup_urls it saw, what it yielded by row
  \* ---- the storage-usage tasks of two uploads
  taskPc,        \* by upload: "none" | "pushed" | "done"
  taskUser,      \* by upload: user._id
  taskAmount,    \* by upload: dagSize
  taskSeen,      \* history: by upload, the used storage of the user when the task was pushed
  taskFailed,    \* history: by upload, the mutation of the task failed
  userStorage,   \* persistence: by user, usedStorage
  baseStorage,   \* history: by user, usedStorage before the uploads
  \* ---- pinPost and createPin
  ppData,        \* pinData: the body of the request
  ppWaitUntil,   \* whether ctx.waitUntil exists
  ppPc,          \* "request" | "persist" | "returned"
  ppResponse,    \* NoResponse, an error response, the pin status returned, or Rejected
  ppCalls,       \* history: the calls made to the cluster and to the persistence layer
  ppTask,        \* the background task: "none" | "wait" | "upsert" | "done" | "failed"
  ppOkPins,      \* local okPins of the task: what waitToGetOkPins returned
  ppUpserted,    \* history: the pins whose upsertPin has completed
  ppContent,     \* the promise of createContent: "none" | "issued" | "done" | "failed"
  ppIssuedEarly, \* history: an upsertPin was issued while createContent had not completed
  \* ---- pinsGet and statusGet
  getParams,     \* request.params of the last GET /pins
  getResponse,   \* its response
  contentTable,  \* table content with its pins and deals: dagSize by cid, NoSize where no row
  stCid,         \* request.params.cid of the last GET /status/:cid
  stKey,         \* history: the cid getStatus was called with
  stResponse     \* its response

aggVars == <<pins, apiStatus>>
carVars == <<roots, carPc, rawRootBlock, blocks, size, carResult, pulled, maxLen, rootAt,
             rejected, streamed, firstRoot, dupSeen>>
upVars == <<upPc, response, waitUntil, dagSize, upPins, attempts, incPc, recPc, start,
            recEnd, okPins>>
envVars == <<now, cluster, addCalls, addLocal, statusCalls, uploads, createOk, okBeforeDeadline, dbPins, pinUpserts, usedStorage>>
bkVars == <<bkPc, concurrency, items, taken, batchStart, totalProcessed, totalSuccessful,
           backupUrls, lastExport>>
cidVars == <<cidA, cidB, outA, outB, outAA>>
pinVars == <<pinTable, dbCalls, lastUpsert, pgParam, pgResponse, pgStatus, pgPrev, pgFresh,
             yielded>>
taskVars == <<taskPc, taskUser, taskAmount, taskSeen, taskFailed, userStorage, baseStorage>>
ppVars == <<ppData, ppWaitUntil, ppPc, ppResponse, ppCalls, ppTask, ppOkPins, ppUpserted,
           ppContent, ppIssuedEarly>>
getVars == <<getParams, getResponse, contentTable, stCid, stKey, stResponse>>
vars == <<aggVars, carVars, upVars, envVars, bkVars, cidVars, pinVars, taskVars, ppVars, getVars>>

----------------------------------------------------------------------------
\* Bounds of the model.
MaxPins == 3
MaxRoots == 2
MaxBlocks == 3
MaxTicks == 6
MaxCandidates == 4
MaxConcurrency == 2
MaxDbCalls == 3
MaxDagSize == 2
MaxUsedStorage == 1

\* All sequences over S of length at most n.
SeqsUpTo(S, n) == UNION {[1..k -> S] : k \in 0..n}

----------------------------------------------------------------------------
\* Pin status aggregator (pins.js)

\* The replica states a Pin record can carry.
PinStatus == {"Pinned", "Pinning", "PinQueued", "Remote", "Sharded", "Unpinned", "PinError"}

PinRecords == {[status |-> s] : s \in PinStatus}

\* Array.prototype.includes
Includes(seq, x) == \E i \in 1..Len(seq) : seq[i] = x

\* Mutant: the Pinning test is made before the Pinned test.
getPinningAPIStatus_PinningFirst(ps) ==
  LET pinStatuses == [i \in 1..Len(ps) |-> ps[i].status] IN
  IF Includes(pinStatuses, "Pinning") THEN "pinning"
  ELSE IF Includes(pinStatuses, "Pinned") THEN "pinned"
  ELSE IF Includes(pinStatuses, "PinQueued") \/ Includes(pinStatuses, "Remote") THEN "queued"
  ELSE IF Len(pinStatuses) = 0 THEN "queued"
  ELSE "failed"

getPinningAPIStatus(ps) ==
  LET pinStatuses == [i \in 1..Len(ps) |-> ps[i].status] IN
  IF Includes(pinStatuses, "Pinned") THEN "pinned"
  ELSE IF Includes(pinStatuses, "Pinning") THEN "pinning"
  ELSE IF Includes(pinStatuses, "PinQueued") \/ Includes(pinStatuses, "Remote") THEN "queued"
  ELSE IF Len(pinStatuses) = 0 THEN "queued"
  ELSE "failed"

AggInit ==
  /\ pins \in SeqsUpTo(PinRecords, MaxPins)
  /\ apiStatus = "none"

\* One call of getPinningAPIStatus(pins).
Aggregate ==
  /\ apiStatus = "none"
  /\ apiStatus' = getPinningAPIStatus(pins)
  /\ UNCHANGED pins

----------------------------------------------------------------------------
\* CAR validator (car.js)

MAX_BLOCK_SIZE == 1048576

\* A link of a dag-pb node whose optional Tsize is not set.
NoTsize == -1

Codecs == {"dag-pb", "raw", "dag-cbor", "other"}

\* const decoders = [pb, raw, cbor]
decoders == {"dag-pb", "raw", "dag-cbor"}

CIDs == {[code |-> c, hash |-> "h1"] : c \in Codecs} \cup {[code |-> "dag-pb", hash |-> "h2"]}

\* The byte payloads a block can carry: a length, and the links the bytes
\* encode when read as a dag-pb or dag-cbor node (each link with its Tsize).
LinkLists == {<<>>, <<100, 200>>, <<NoTsize, 100>>}
ByteLengths == {50, MAX_BLOCK_SIZE, MAX_BLOCK_SIZE + 1}
Bytes == {[byteLength |-> n, encLinks |-> l] : n \in ByteLengths, l \in LinkLists}

Blocks == {[cid |-> c, bytes |-> b] : c \in CIDs, b \in Bytes}

\* The blocks of the CARs uploaded under SpecUpload: small dag-pb and dag-cbor
\* nodes, raw leaves of the largest size allowed, and blocks that are too big.
UploadBlocks ==
  {b \in Blocks :
     /\ b.cid.hash = "h1"
     /\ b.bytes.encLinks \in {<<>>, <<100, 200>>}
     /\ \/ b.cid.code = "dag-pb" /\ b.bytes.byteLength # MAX_BLOCK_SIZE
        \/ b.cid.code = "dag-cbor" /\ b.bytes.byteLength < MAX_BLOCK_SIZE /\ b.bytes.encLinks = <<>>
        \/ b.cid.code = "raw" /\ b.bytes.byteLength >= MAX_BLOCK_SIZE /\ b.bytes.encLinks = <<>>}

NoBlock == [cid |-> [code |-> "none", hash |-> "none"],
            bytes |-> [byteLength |-> 0, encLinks |-> <<>>]]

\* decoder.decode(bytes): a raw block decodes to its bytes and has no links; a
\* dag-pb or dag-cbor block decodes to a node with the links its bytes encode.
Decode(code, bytes) ==
  IF code = "raw" THEN [Links |-> <<>>] ELSE [Links |-> bytes.encLinks]

RECURSIVE SumTsize(_)
\* pbNode.Links.reduce((acc, curr) => acc + (curr.Tsize || 0), 0)
SumTsize(links) ==
  IF links = <<>> THEN 0
  ELSE (IF Head(links) = NoTsize THEN 0 ELSE Head(links)) + SumTsize(Tail(links))

\* Mutant: the node's own bytes are left out of the sum.
cumulativeSize_LinksOnly(pbNodeBytes, pbNode) == SumTsize(pbNode.Links)

cumulativeSize(pbNodeBytes, pbNode) ==
  pbNodeBytes.byteLength + SumTsize(pbNode.Links)

CarInit ==
  /\ roots \in SeqsUpTo(CIDs, MaxRoots)
  /\ carPc = "roots"
  /\ rawRootBlock = NoBlock
  /\ blocks = 0
  /\ size = 0
  /\ carResult = "pending"
  /\ pulled = 0
  /\ maxLen = 0
  /\ rootAt = 0
  /\ rejected = NoBlock
  /\ streamed = 0
  /\ firstRoot = NoBlock
  /\ dupSeen = FALSE

CarThrow(msg) ==
  /\ carPc' = "done"
  /\ carResult' = msg

\* Mutant: the test for too many roots is off by one.
CarStatRoots_TwoAllowed ==
  /\ carPc = "roots"
  /\ IF Len(roots) = 0 THEN CarThrow("missing roots")
     ELSE IF Len(roots) > 2 THEN CarThrow("too many roots")
     ELSE carPc' = "stream" /\ UNCHANGED carResult
  /\ UNCHANGED <<roots, rawRootBlock, blocks, size, pulled, maxLen, rootAt, rejected, streamed,
                 firstRoot, dupSeen>>

\* Lines 274-283: read the header, check the root list.
CarStatRoots ==
  /\ carPc = "roots"
  /\ IF Len(roots) = 0 THEN CarThrow("missing roots")
     ELSE IF Len(roots) > 1 THEN CarThrow("too many roots")
     ELSE carPc' = "stream" /\ UNCHANGED carResult
  /\ UNCHANGED <<roots, rawRootBlock, blocks, size, pulled, maxLen, rootAt, rejected, streamed,
                 firstRoot, dupSeen>>

rootCid == roots[1]

\* Mutant: the size test is >= instead of >.
BlockTooBig_AtLimit(blockSize) == blockSize >= MAX_BLOCK_SIZE

\* if (blockSize > MAX_BLOCK_SIZE)
BlockTooBig(blockSize) == blockSize > MAX_BLOCK_SIZE

\* Mutant: every block with the CID of the root replaces the block retained.
RetainsRoot_Latest(held, block, root) == block.cid = root

\* if (!rawRootBlock && block.cid.equals(rootCid))
RetainsRoot(held, block, root) == held = NoBlock /\ block.cid = root

\* Lines 287-297: one iteration of the for-await loop, on the block the
\* iterator yields next.
CarStatBlock(block) ==
  /\ carPc = "stream"
  /\ pulled < MaxBlocks
  /\ pulled' = pulled + 1
  /\ maxLen' = IF block.bytes.byteLength > maxLen THEN block.bytes.byteLength ELSE maxLen
  /\ streamed' = streamed + block.bytes.byteLength
  /\ LET blockSize == block.bytes.byteLength IN
     IF BlockTooBig(blockSize)
     THEN /\ CarThrow("block too big")
          /\ rejected' = block
          /\ UNCHANGED <<rawRootBlock, blocks, size, rootAt, firstRoot, dupSeen>>
     ELSE /\ IF RetainsRoot(rawRootBlock, block, rootCid)
             THEN rawRootBlock' = block /\ rootAt' = pulled + 1
             ELSE UNCHANGED <<rawRootBlock, rootAt>>
          /\ firstRoot' = IF firstRoot = NoBlock /\ block.cid = rootCid THEN block ELSE firstRoot
          /\ dupSeen' = (dupSeen \/ (firstRoot # NoBlock /\ block.cid = rootCid))
          /\ size' = size + blockSize
          /\ blocks' = blocks + 1
          /\ UNCHANGED <<carPc, carResult, rejected>>
  /\ UNCHANGED roots

\* Mutant: a link that declares no size is not counted as a link.
IncompleteDag_SizedLinks(nblocks, links) ==
  nblocks = 1 /\ \E i \in 1..Len(links) : links[i] = NoTsize

\* Mutant: a root with links is accepted in a one-block CAR.
IncompleteDag_Never(nblocks, links) == FALSE

\* if (blocks === 1 && links.length > 0)
IncompleteDag(nblocks, links) == nblocks = 1 /\ Len(links) > 0

\* Mutant: the size of a dag-pb DAG is left as the sum of the streamed blocks.
SizeOfDag_RawSum(code, bytes, value, rawSum) == rawSum

\* Lines 313-315: the size reported for a decoded root.
SizeOfDag(code, bytes, value, rawSum) ==
  IF code = "dag-pb" THEN cumulativeSize(bytes, value) ELSE rawSum

\* Mutant: a codec without a decoder of its own is decoded all the same.
HasDecoder_Fallback(code) == TRUE

\* decoders.find(d => d.code === rootCid.code)
HasDecoder(code) == code \in decoders

\* Mutant: the root block is looked for before the blocks are counted.
CarStatReturn_RootFirst(nblocks, root, rootBlock, rawSum) ==
  IF rootBlock = NoBlock THEN [result |-> "missing root block", size |-> rawSum]
  ELSE IF nblocks = 0 THEN [result |-> "empty CAR", size |-> rawSum]
  ELSE IF HasDecoder(root.code)
  THEN LET value == Decode(root.code, rootBlock.bytes)
           links == value.Links
       IN IF IncompleteDag(nblocks, links)
          THEN [result |-> "CAR must contain at least one non-root block", size |-> rawSum]
          ELSE [result |-> "ok", size |-> SizeOfDag(root.code, rootBlock.bytes, value, rawSum)]
  ELSE [result |-> "ok", size |-> rawSum]

\* Lines 298-317: what carStat throws or returns once the loop has ended with
\* `nblocks` blocks counted, `rootBlock` retained and `rawSum` accumulated.
CarStatReturn(nblocks, root, rootBlock, rawSum) ==
  IF nblocks = 0 THEN [result |-> "empty CAR", size |-> rawSum]
  ELSE IF rootBlock = NoBlock THEN [result |-> "missing root block", size |-> rawSum]
  ELSE IF HasDecoder(root.code)
  THEN LET value == Decode(root.code, rootBlock.bytes)
           links == value.Links
       IN IF IncompleteDag(nblocks, links)
          THEN [result |-> "CAR must contain at least one non-root block", size |-> rawSum]
          ELSE [result |-> "ok", size |-> SizeOfDag(root.code, rootBlock.bytes, value, rawSum)]
  ELSE [result |-> "ok", size |-> rawSum]

\* Lines 298-317: the iterator is exhausted.
CarStatEnd ==
  /\ carPc = "stream"
  /\ LET r == CarStatReturn(blocks, rootCid, rawRootBlock, size) IN
     /\ size' = r.size
     /\ CarThrow(r.result)
  /\ UNCHANGED <<roots, rawRootBlock, blocks, pulled, maxLen, rootAt, rejected, streamed,
                 firstRoot, dupSeen>>

----------------------------------------------------------------------------
\* Collaborators: the pinning cluster, the persistence layer, the clock

PIN_STATUS_CHECK_INTERVAL == 5000
MAX_PIN_STATUS_CHECK_TIME == 30000
CREATE_UPLOAD_RETRIES == 4

\* const PIN_OK_STATUS = ['Pinned', 'Pinning', 'PinQueued']
PIN_OK_STATUS == {"Pinned", "Pinning", "PinQueued"}

Peers == {"p1", "p2"}

\* The tracker statuses the cluster reports for a peer.
TrackerStatus == {"pinned", "pinning", "pin_queued", "unpinned"}

\* The peerMaps the cluster can report: any set of peers, each with a status.
PeerMaps == UNION {[S -> TrackerStatus] : S \in SUBSET Peers}

NoPeers == [p \in {} |-> "unpinned"]

\* toPinStatusEnum of utils/pin.js: the tracker status as a Pin status.
toPinStatusEnum(status) ==
  CASE status = "pinned" -> "Pinned"
    [] status = "pinning" -> "Pinning"
    [] status = "pin_queued" -> "PinQueued"
    [] OTHER -> "Unpinned"

\* Lines 347-352: one pin per entry of the peerMap.
toPins(peerMap) ==
  {[status |-> toPinStatusEnum(peerMap[p]), location |-> p] : p \in DOMAIN peerMap}

\* pins.filter(p => PIN_OK_STATUS.includes(p.status))
OkPins(ps) == {p \in ps : p.status \in PIN_OK_STATUS}

NoRows == [p \in Peers |-> "none"]

EnvInit ==
  /\ now = 0
  /\ cluster = NoPeers
  /\ addCalls = 0
  /\ addLocal = "none"
  /\ statusCalls = 0
  /\ uploads = {}
  /\ createOk = 0
  /\ okBeforeDeadline = FALSE
  /\ dbPins = NoRows
  /\ pinUpserts = 0
  /\ usedStorage = 0

\* Time passes. The clock is read by the reconciliation task only, so the
\* model lets it advance once that task has been called.
Tick ==
  /\ recPc # "none"
  /\ now < MaxTicks * PIN_STATUS_CHECK_INTERVAL
  /\ now' = now + PIN_STATUS_CHECK_INTERVAL
  /\ UNCHANGED <<cluster, addCalls, statusCalls, uploads, createOk, okBeforeDeadline, dbPins, pinUpserts, usedStorage, addLocal>>

\* The cluster converges: a peer starts or stops holding the content, or its
\* status changes. Between cluster.add and the cluster.status that follows it any
\* change is already a choice of ClusterAdd; afterwards the peerMap is read by
\* the reconciliation task only.
ClusterChange ==
  /\ recPc # "none"
  /\ \E p \in Peers :
       \/ /\ p \in DOMAIN cluster
          /\ cluster' = [q \in DOMAIN cluster \ {p} |-> cluster[q]]
       \/ \E st \in TrackerStatus :
            /\ p \in DOMAIN cluster => cluster[p] # st
            /\ cluster' = [q \in DOMAIN cluster \cup {p} |-> IF q = p THEN st ELSE cluster[q]]
  /\ okBeforeDeadline' =
       (okBeforeDeadline
          \/ (OkPins(toPins(cluster')) # {} /\ now - start < MAX_PIN_STATUS_CHECK_TIME))
  /\ UNCHANGED <<now, addCalls, statusCalls, uploads, createOk, dbPins, pinUpserts, usedStorage, addLocal>>

----------------------------------------------------------------------------
\* Upload orchestrator (car.js, handleCarUpload)

UpInit ==
  /\ upPc = "carStat"
  /\ response = "none"
  /\ waitUntil \in BOOLEAN
  /\ dagSize = 0
  /\ upPins = {}
  /\ attempts = 0
  /\ incPc = "none"
  /\ recPc = "none"
  /\ start = 0
  /\ recEnd = 0
  /\ okPins = {}

UpFail(msg) ==
  /\ upPc' = "done"
  /\ response' = msg

\* Mutant: the block count is destructured as the DAG size.
HandleCarStat_Blocks ==
  /\ upPc = "carStat"
  /\ carPc = "done"
  /\ IF carResult = "ok"
     THEN upPc' = "add" /\ dagSize' = blocks /\ UNCHANGED response
     ELSE UpFail(carResult) /\ UNCHANGED dagSize
  /\ UNCHANGED <<waitUntil, upPins, attempts, incPc, recPc, start, recEnd, okPins>>
  /\ UNCHANGED envVars

\* Mutant: a rejection by carStat is not propagated.
HandleCarStat_Swallow ==
  /\ upPc = "carStat"
  /\ carPc = "done"
  /\ upPc' = "add"
  /\ dagSize' = size
  /\ UNCHANGED <<response, waitUntil, upPins, attempts, incPc, recPc, start, recEnd, okPins>>
  /\ UNCHANGED envVars

\* Line 146: carStat has settled; a rejection is the handler's failure.
HandleCarStat ==
  /\ upPc = "carStat"
  /\ carPc = "done"
  /\ IF carResult = "ok"
     THEN upPc' = "add" /\ dagSize' = size /\ UNCHANGED response
     ELSE UpFail(carResult) /\ UNCHANGED dagSize
  /\ UNCHANGED <<waitUntil, upPins, attempts, incPc, recPc, start, recEnd, okPins>>
  /\ UNCHANGED envVars

LOCAL_ADD_THRESHOLD == 2621440

\* Mutant: the size of the CAR is compared with the block size limit.
LocalAdd_OverBlockLimit(carSize) == carSize > MAX_BLOCK_SIZE

\* local: car.size > LOCAL_ADD_THRESHOLD
LocalAdd(carSize) == carSize > LOCAL_ADD_THRESHOLD

\* Lines 151-157: cluster.add, which can fail. The size of the CAR is taken
\* as the bytes of its blocks; the framing of the file is left out.
ClusterAdd ==
  /\ upPc = "add"
  /\ addCalls' = addCalls + 1
  /\ addLocal' = IF LocalAdd(streamed) THEN "true" ELSE "false"
  /\ \/ /\ \E pm \in PeerMaps : cluster' = pm
        /\ upPc' = "status"
        /\ UNCHANGED response
     \/ /\ UpFail("cluster add failed")
        /\ UNCHANGED cluster
  /\ UNCHANGED <<waitUntil, dagSize, upPins, attempts, incPc, recPc, start, recEnd, okPins>>
  /\ UNCHANGED <<now, statusCalls, uploads, createOk, okBeforeDeadline, dbPins, pinUpserts, usedStorage>>

\* Mutant: an empty snapshot is not an error.
ClusterStatus_NoCheck ==
  /\ upPc = "status"
  /\ statusCalls' = statusCalls + 1
  /\ upPc' = "create"
  /\ upPins' = toPins(cluster)
  /\ UNCHANGED <<response, waitUntil, dagSize, attempts, incPc, recPc, start, recEnd, okPins>>
  /\ UNCHANGED <<now, cluster, addCalls, uploads, createOk, okBeforeDeadline, dbPins, pinUpserts, usedStorage, addLocal>>

\* Lines 159-163: cluster.status and the initial snapshot.
ClusterStatus ==
  /\ upPc = "status"
  /\ statusCalls' = statusCalls + 1
  /\ LET ps == toPins(cluster) IN
     IF Cardinality(ps) = 0
     THEN UpFail("not pinning on any node") /\ UNCHANGED upPins
     ELSE upPc' = "create" /\ upPins' = ps /\ UNCHANGED response
  /\ UNCHANGED <<waitUntil, dagSize, attempts, incPc, recPc, start, recEnd, okPins>>
  /\ UNCHANGED <<now, cluster, addCalls, uploads, createOk, okBeforeDeadline, dbPins, pinUpserts, usedStorage, addLocal>>

\* Mutant: the loop has no deadline.
WhileCond_Always(elapsed) == TRUE

\* Mutant: the loop runs while the elapsed time is below the maximum.
WhileCond_Below(elapsed) == elapsed < MAX_PIN_STATUS_CHECK_TIME

\* while (Date.now() - start > MAX_PIN_STATUS_CHECK_TIME)
WhileCond(elapsed) == elapsed > MAX_PIN_STATUS_CHECK_TIME

\* Mutant: the reconciliation task is pushed whatever the snapshot holds.
ScheduleReconcile_Always ==
  IF waitUntil
  THEN /\ start' = now
       /\ IF WhileCond(now - now)
          THEN recPc' = "sleep" /\ UNCHANGED recEnd
          ELSE recPc' = "done" /\ recEnd' = now
  ELSE UNCHANGED <<recPc, start, recEnd>>

\* Lines 209-212 and 233-235: the reconciliation task is pushed when no pin of
\* the snapshot is OK, and, with ctx.waitUntil, called at once: it reads the
\* clock twice without yielding and tests the loop condition.
ScheduleReconcile ==
  IF waitUntil /\ OkPins(upPins) = {}
  THEN /\ start' = now
       /\ IF WhileCond(now - now)
          THEN recPc' = "sleep" /\ UNCHANGED recEnd
          ELSE recPc' = "done" /\ recEnd' = now
  ELSE UNCHANGED <<recPc, start, recEnd>>

\* Mutant: one retry too many.
MayRetry_OneMore(failed) == failed <= CREATE_UPLOAD_RETRIES

\* retries: CREATE_UPLOAD_RETRIES: retry() calls again after a failure while
\* fewer than CREATE_UPLOAD_RETRIES earlier attempts have failed.
MayRetry(failed) == failed < CREATE_UPLOAD_RETRIES

\* Mutant: the tasks are called before the mutation has settled.
CreateUpload_TasksFirst ==
  /\ upPc = "create"
  /\ attempts' = attempts + 1
  /\ incPc' = IF waitUntil THEN "query" ELSE incPc
  /\ ScheduleReconcile
  /\ \/ /\ uploads' = uploads \cup {[dagSize |-> dagSize, pins |-> upPins]}
        /\ createOk' = createOk + 1
        /\ dbPins' = [p \in Peers |->
                        IF \E q \in upPins : q.location = p
                        THEN (CHOOSE q \in upPins : q.location = p).status
                        ELSE dbPins[p]]
        /\ upPc' = "done"
        /\ response' = "ok"
     \/ /\ IF MayRetry(attempts)
           THEN UNCHANGED <<upPc, response>>
           ELSE UpFail("create upload failed")
        /\ UNCHANGED <<uploads, createOk, dbPins, addLocal>>
  /\ UNCHANGED <<waitUntil, dagSize, upPins, okPins>>
  /\ UNCHANGED <<now, cluster, addCalls, statusCalls, okBeforeDeadline, pinUpserts, usedStorage, addLocal>>

\* Lines 173-188: one attempt of the create-upload mutation under retry();
\* lines 190-237 follow its success without yielding.
CreateUpload ==
  /\ upPc = "create"
  /\ attempts' = attempts + 1
  /\ \/ /\ uploads' = uploads \cup {[dagSize |-> dagSize, pins |-> upPins]}
        /\ createOk' = createOk + 1
        /\ dbPins' = [p \in Peers |->
                        IF \E q \in upPins : q.location = p
                        THEN (CHOOSE q \in upPins : q.location = p).status
                        ELSE dbPins[p]]
        /\ incPc' = IF waitUntil THEN "query" ELSE incPc
        /\ ScheduleReconcile
        /\ upPc' = "done"
        /\ response' = "ok"
     \/ /\ IF MayRetry(attempts)
           THEN UNCHANGED <<upPc, response>>
           ELSE UpFail("create upload failed")
        /\ UNCHANGED <<uploads, createOk, dbPins, incPc, recPc, start, recEnd, addLocal>>
  /\ UNCHANGED <<waitUntil, dagSize, upPins, okPins>>
  /\ UNCHANGED <<now, cluster, addCalls, statusCalls, okBeforeDeadline, pinUpserts, usedStorage, addLocal>>

\* Mutant: the amount is written to the Upload record.
IncrementUsedStorage_OnUpload ==
  /\ incPc = "query"
  /\ incPc' = "done"
  /\ uploads' = {[u EXCEPT !.dagSize = u.dagSize + dagSize] : u \in uploads}
  /\ UNCHANGED <<upPc, response, waitUntil, dagSize, upPins, attempts, recPc, start, recEnd,
                 okPins>>
  /\ UNCHANGED <<now, cluster, addCalls, statusCalls, createOk, okBeforeDeadline, dbPins, pinUpserts,
                 usedStorage, addLocal>>

\* Mutant: a failure of the storage-usage mutation is the handler's failure.
IncrementUsedStorage_Propagate ==
  /\ incPc = "query"
  /\ incPc' = "done"
  /\ \/ usedStorage' = usedStorage + dagSize /\ UNCHANGED response
     \/ UNCHANGED usedStorage /\ response' = "failed to update user used storage"
  /\ UNCHANGED <<upPc, waitUntil, dagSize, upPins, attempts, recPc, start, recEnd, okPins>>
  /\ UNCHANGED <<now, cluster, addCalls, statusCalls, uploads, createOk, okBeforeDeadline, dbPins, pinUpserts, addLocal>>

\* Lines 195-204: the storage-usage task; a failure of the mutation is logged.
IncrementUsedStorage ==
  /\ incPc = "query"
  /\ incPc' = "done"
  /\ \/ usedStorage' = usedStorage + dagSize
     \/ UNCHANGED usedStorage
  /\ UNCHANGED <<upPc, response, waitUntil, dagSize, upPins, attempts, recPc, start, recEnd,
                 okPins>>
  /\ UNCHANGED <<now, cluster, addCalls, statusCalls, uploads, createOk, okBeforeDeadline, dbPins, pinUpserts, addLocal>>

\* The loop test of line 212, made again after a `continue`.
ReconcileLoopTest ==
  IF WhileCond(now - start)
  THEN recPc' = "sleep" /\ UNCHANGED recEnd
  ELSE recPc' = "done" /\ recEnd' = now

\* Line 213: the body of the loop sleeps for one interval.
ReconcileSleep ==
  /\ recPc = "sleep"
  /\ now' = now + PIN_STATUS_CHECK_INTERVAL
  /\ recPc' = "status"
  /\ UNCHANGED <<upPc, response, waitUntil, dagSize, upPins, attempts, incPc, start, recEnd,
                 okPins>>
  /\ UNCHANGED <<cluster, addCalls, statusCalls, uploads, createOk, okBeforeDeadline, dbPins, pinUpserts, usedStorage, addLocal>>

\* Lines 214-221: one poll of cluster.status.
ReconcilePoll ==
  /\ recPc = "status"
  /\ statusCalls' = statusCalls + 1
  /\ LET ps == toPins(cluster) IN
     IF Cardinality(ps) = 0
     THEN recPc' = "fault" /\ recEnd' = now /\ UNCHANGED okPins
     ELSE IF OkPins(ps) = {}
     THEN ReconcileLoopTest /\ UNCHANGED okPins
     ELSE recPc' = "upsert" /\ okPins' = OkPins(ps) /\ UNCHANGED recEnd
  /\ UNCHANGED <<upPc, response, waitUntil, dagSize, upPins, attempts, incPc, start>>
  /\ UNCHANGED <<now, cluster, addCalls, uploads, createOk, okBeforeDeadline, dbPins, pinUpserts, usedStorage, addLocal>>

\* Lines 223-228: the upsert of one OK pin, which can fail; the task returns
\* after the last one.
ReconcileUpsert ==
  /\ recPc = "upsert"
  /\ \E pin \in okPins :
       \/ /\ dbPins' = [dbPins EXCEPT ![pin.location] = pin.status]
          /\ pinUpserts' = pinUpserts + 1
          /\ okPins' = okPins \ {pin}
          /\ IF okPins = {pin}
             THEN recPc' = "done" /\ recEnd' = now
             ELSE UNCHANGED <<recPc, recEnd>>
       \/ /\ recPc' = "fault"
          /\ recEnd' = now
          /\ UNCHANGED <<dbPins, pinUpserts, okPins, addLocal>>
  /\ UNCHANGED <<upPc, response, waitUntil, dagSize, upPins, attempts, incPc, start>>
  /\ UNCHANGED <<now, cluster, addCalls, statusCalls, uploads, createOk, okBeforeDeadline, usedStorage, addLocal>>

----------------------------------------------------------------------------
\* Backup job (pins-backup.js, backupPins)

\* const CONCURRENCY = 10, the default of the option `concurrency`.
CONCURRENCY == 10

\* The stages of one candidate: not yet pulled from the source; the pipe of
\* lines 214-219 waiting for exportCar to yield the content, for uploadCar to
\* yield the URL of the completed upload, for registerBackup to record it;
\* and settled, successfully or not.
InFlight == {"export", "upload", "register"}
Settled == {"ok", "failed"}

\* The value of a property that an object does not have.
Undefined == <<"undefined">>

\* obj[key] of JavaScript.
Prop(obj, key) == IF key \in DOMAIN obj THEN obj[key] ELSE Undefined

\* The i-th row of GET_PINNED_PINS_QUERY (lines 185-192).
Row(i) == [id |-> <<"id", i>>, content_cid |-> <<"content", i>>,
           source_cid |-> <<"source", i>>, user_id |-> <<"user", 1>>]

\* Lines 173-179: the candidate that getPinsNotBackedUp yields for a row.
Candidate(upload) ==
  [sourceCid |-> upload.source_cid, contentCid |-> upload.content_cid,
   userId |-> upload.user_id, uploadId |-> upload.id]

\* Lines 55-57 and 70: the URL that s3Upload returns for a backup.
BackupUrl(bak) == <<"complete", bak.contentCid>>

NoUrl == <<"none">>

\* Line 218: registerBackup(rwPg, pin.content_cid, pin.id)
RegisterBackupArgs(pin) ==
  [contentCid |-> Prop(pin, "content_cid"), rowId |-> Prop(pin, "id")]

\* Lines 12-13 and 24: UPDATE_BACKUP_URL sets the URL of the rows
\* WHERE id = $2 AND content_cid = $3.
UpdateBackupUrl(urls, url, rowId, contentCid) ==
  [i \in DOMAIN urls |->
     IF Row(i).id = rowId /\ Row(i).content_cid = contentCid THEN url ELSE urls[i]]

\* const MAX_DAG_SIZE = 1024 * 1024 * 1024 * 32, in MiB as all DAG sizes here.
MAX_DAG_SIZE == 32768

\* The options of exportCar: none, as backupPins calls it, or a maxDagSize.
ExportOptions == {[timeout |-> 0], [maxDagSize |-> 1]}

\* const maxDagSize = options.maxDagSize || MAX_DAG_SIZE
maxDagSize(options) ==
  IF "maxDagSize" \in DOMAIN options /\ options.maxDagSize # 0
  THEN options.maxDagSize ELSE MAX_DAG_SIZE

\* The DAGs behind a source CID: a codec, and a size at or above the limit.
Dags(limit) == {[code |-> c, bytes |-> n] : c \in {"raw", "dag-pb", "dag-cbor"}, n \in {limit, limit + 1}}

\* The size getSize returns for a codec it does not know: undefined.
UnknownSize == -1

\* Lines 144-152: the size of a raw block or of a dag-pb DAG; undefined otherwise.
getSize(dag) == IF dag.code \in {"raw", "dag-pb"} THEN dag.bytes ELSE UnknownSize

\* Mutant: a DAG of exactly the limit is too big.
TooBig_AtLimit(bytesTotal, limit) == bytesTotal # UnknownSize /\ bytesTotal >= limit

\* if (bytesTotal != null && bytesTotal > maxDagSize)
TooBig(bytesTotal, limit) == bytesTotal # UnknownSize /\ bytesTotal > limit

NoExport == [item |-> 0, dag |-> [code |-> "none", bytes |-> 0], max |-> 0, outcome |-> "none"]

BkInit ==
  /\ bkPc = "query"
  /\ concurrency \in (1..MaxConcurrency) \cup {CONCURRENCY}
  /\ items \in UNION {[1..n -> {"pending"}] : n \in 0..MaxCandidates}
  /\ backupUrls = [i \in 1..Len(items) |-> NoUrl]
  /\ lastExport = NoExport
  /\ taken = 0
  /\ batchStart = 1
  /\ totalProcessed = 0
  /\ totalSuccessful = 0

\* The candidates of the batch in progress.
CurrentBatch == batchStart..taken

\* Mutant: the batch is not awaited before the next one is taken.
BatchSettled_NoAwait == TRUE

\* await Promise.all(...) of line 211: every item of the batch has settled.
BatchSettled == \A i \in CurrentBatch : items[i] \in Settled

\* Lines 209-212: batch() pulls up to `concurrency` candidates from
\* getPinsNotBackedUp, and pins.map calls the async function of each, which
\* runs up to its first await, inside the pipe.
BackupTakeBatch ==
  /\ bkPc \in {"query", "next"}
  /\ taken < Len(items)
  /\ LET last == IF taken + concurrency < Len(items)
                 THEN taken + concurrency ELSE Len(items) IN
     /\ items' = [i \in 1..Len(items) |->
                    IF i > taken /\ i <= last THEN "export" ELSE items[i]]
     /\ batchStart' = taken + 1
     /\ taken' = last
  /\ bkPc' = "batch"
  /\ UNCHANGED <<concurrency, totalProcessed, totalSuccessful, backupUrls, lastExport>>

\* Mutant: the failure of an item is thrown again, and rejects Promise.all.
ItemFailed_Rethrow(i) ==
  /\ items' = [items EXCEPT ![i] = "failed"]
  /\ bkPc' = "aborted"

\* Lines 221-223: the failure of an item is caught and logged.
ItemFailed(i) ==
  /\ items' = [items EXCEPT ![i] = "failed"]
  /\ UNCHANGED bkPc

\* Lines 214-220: one stage of the pipe of an item succeeds or throws; after
\* the last one the item counts as successful. The content that exportCar
\* yields is the generator ipfsDagExport (lines 105-137), which runs when
\* s3Upload reads it: it throws ERR_TOO_BIG or calls ipfs.dagExport.
ItemStep(i) ==
  /\ bkPc = "batch"
  /\ i \in CurrentBatch
  /\ items[i] \in InFlight
  /\ \/ /\ items[i] = "export"
        /\ items' = [items EXCEPT ![i] = "upload"]
        /\ UNCHANGED <<bkPc, totalSuccessful, backupUrls, lastExport>>
     \/ /\ items[i] = "upload"
        /\ \E options \in ExportOptions : \E dag \in Dags(maxDagSize(options)) :
             LET bytesTotal == getSize(dag) IN
             IF TooBig(bytesTotal, maxDagSize(options))
             THEN /\ lastExport' = [item |-> i, dag |-> dag, max |-> maxDagSize(options),
                                    outcome |-> "ERR_TOO_BIG"]
                  /\ ItemFailed(i)
             ELSE /\ lastExport' = [item |-> i, dag |-> dag, max |-> maxDagSize(options),
                                    outcome |-> "dagExport"]
                  /\ \/ items' = [items EXCEPT ![i] = "register"] /\ UNCHANGED bkPc
                     \/ ItemFailed(i)
        /\ UNCHANGED <<totalSuccessful, backupUrls>>
     \/ /\ items[i] = "register"
        /\ LET pin == Candidate(Row(i))
               args == RegisterBackupArgs(pin)
           IN backupUrls' =
                UpdateBackupUrl(backupUrls, BackupUrl(pin), args.rowId, args.contentCid)
        /\ items' = [items EXCEPT ![i] = "ok"]
        /\ totalSuccessful' = totalSuccessful + 1
        /\ UNCHANGED <<bkPc, lastExport>>
     \/ /\ ItemFailed(i)
        /\ UNCHANGED <<totalSuccessful, backupUrls, lastExport>>
  /\ UNCHANGED <<concurrency, taken, batchStart, totalProcessed>>

\* Lines 211 and 225-226: Promise.all has resolved; the batch is counted.
BackupEndBatch ==
  /\ bkPc = "batch"
  /\ BatchSettled
  /\ totalProcessed' = totalProcessed + 1
  /\ bkPc' = "next"
  /\ UNCHANGED <<concurrency, items, taken, batchStart, totalSuccessful, backupUrls, lastExport>>

\* Lines 169 and 228-229: the source is exhausted; 'backup complete'.
BackupDone ==
  /\ bkPc \in {"query", "next"}
  /\ taken = Len(items)
  /\ bkPc' = "done"
  /\ UNCHANGED <<concurrency, items, taken, batchStart, totalProcessed, totalSuccessful,
                 backupUrls, lastExport>>

----------------------------------------------------------------------------
\* CID normalizer (utils/parse-cid.js, parseCid)

MultihashDigests == {"h1", "h2"}
CidCodecs == {"dag-pb", "raw", "dag-cbor"}
Multibases == {"base58btc", "base32", "base64", "base16"}

\* The strings that spell a CID: a version 0 CID is the bare base58btc
\* spelling of a sha2-256 multihash and its codec is dag-pb; a version 1 CID
\* is spelled in a multibase, with its prefix.
CidStrings ==
  {[version |-> 0, base |-> "base58btc", code |-> "dag-pb", hash |-> h] :
     h \in MultihashDigests}
  \cup {[version |-> 1, base |-> b, code |-> c, hash |-> h] :
          b \in Multibases, c \in CidCodecs, h \in MultihashDigests}

\* What a caller can pass for `cid`: a CID string, another string, no string.
NotACid == [version |-> -1, base |-> "none", code |-> "none", hash |-> "not a cid"]
NotAString == [version |-> -1, base |-> "none", code |-> "none", hash |-> "undefined"]
CidInputs == CidStrings \cup {NotACid, NotAString}

\* What a call ends with other than a string.
InvalidCidError == [version |-> -1, base |-> "none", code |-> "none", hash |-> "InvalidCidError"]
NotCalled == [version |-> -1, base |-> "none", code |-> "none", hash |-> "not called"]

\* CID.parse(source) without a base decoder: it decodes base58btc and base32
\* and throws for every other source.
CanParse(source) == source \in CidStrings /\ source.base \in {"base58btc", "base32"}

\* Mutant: the CID is left in the version it was given in.
toV1_Same(c) == c

\* c.toV1(): a version 0 CID becomes the version 1 CID of the same multihash
\* with the dag-pb codec; a version 1 CID is returned as it is.
toV1(c) ==
  IF c.version = 0 THEN [version |-> 1, code |-> "dag-pb", hash |-> c.hash] ELSE c

\* c.toString(): base58btc for version 0, base32 for version 1.
CidToString(c) ==
  [version |-> c.version, base |-> IF c.version = 0 THEN "base58btc" ELSE "base32",
   code |-> c.code, hash |-> c.hash]

\* Lines 9-16.
parseCid(cid) ==
  IF CanParse(cid)
  THEN LET c == [version |-> cid.version, code |-> cid.code, hash |-> cid.hash]
       IN CidToString(toV1(c))
  ELSE InvalidCidError

CidInit ==
  /\ cidA \in CidInputs
  /\ cidB \in CidInputs
  /\ outA = NotCalled
  /\ outB = NotCalled
  /\ outAA = NotCalled

\* parseCid is called on each of two inputs.
ParseCidBoth ==
  /\ outA = NotCalled
  /\ outA' = parseCid(cidA)
  /\ outB' = parseCid(cidB)
  /\ UNCHANGED <<cidA, cidB, outAA>>

\* parseCid is called on the string a first call returned.
ParseCidAgain ==
  /\ outA \notin {NotCalled, InvalidCidError}
  /\ outAA = NotCalled
  /\ outAA' = parseCid(outA)
  /\ UNCHANGED <<cidA, cidB, outA, outB>>

----------------------------------------------------------------------------
\* Pin table (db/postgres/client.js) and pinGet (pins.js)

PinContents == {"c1", "c2"}

\* The locations a pin can name: a peer, under the name it reports.
Locations == {[peerId |-> "p1", peerName |-> "n1"], [peerId |-> "p1", peerName |-> "n1b"],
              [peerId |-> "p2", peerName |-> "n2"]}

\* The pins the callers write: those toPins builds from a peerMap.
PinInputs == {[status |-> toPinStatusEnum(st), location |-> l] : st \in TrackerStatus, l \in Locations}

\* Mutant: the pin is sent under the name of the peer.
UpsertPinData_ByName(cid, pin) ==
  [content_cid |-> cid, status |-> pin.status, peer_id |-> pin.location.peerName,
   peer_name |-> pin.location.peerName]

\* Lines 353-365: the data upsertPin sends to upsert_pin.
UpsertPinData(cid, pin) ==
  [content_cid |-> cid, status |-> pin.status, peer_id |-> pin.location.peerId,
   peer_name |-> pin.location.peerName]

\* upsert_pin of the database: the row of the content and the peer takes the
\* status given; it is inserted when there is none.
upsert_pin(table, data) ==
  IF \E r \in table : r.content_cid = data.content_cid /\ r.peer_id = data.peer_id
  THEN {IF r.content_cid = data.content_cid /\ r.peer_id = data.peer_id
        THEN [r EXCEPT !.status = data.status] ELSE r : r \in table}
  ELSE table \cup {[id |-> Cardinality(table) + 1, content_cid |-> data.content_cid,
                    peer_id |-> data.peer_id, status |-> data.status]}

RECURSIVE RowsById(_)
\* The rows of a set in the order of their ids.
RowsById(rows) ==
  IF rows = {} THEN <<>>
  ELSE LET first == CHOOSE r \in rows : \A q \in rows : r.id <= q.id
       IN <<first>> \o RowsById(rows \ {first})

\* The pin requests in the database, by id, with the content of each.
PinRequests == [i \in {1, 2} |-> IF i = 1 THEN "c1" ELSE "c2"]

\* getPAPinRequest of the database client: the request with the pins its
\* content has at the time of the call.
getPAPinRequest(table, requestId) ==
  [_id |-> requestId, requestedCid |-> PinRequests[requestId],
   pins |-> RowsById({r \in table : r.content_cid = PinRequests[requestId]})]

\* What request.params.requestId can be: digits or not.
RequestIdParams ==
  {[text |-> "1", digits |-> TRUE, value |-> 1], [text |-> "2", digits |-> TRUE, value |-> 2],
   [text |-> "1000", digits |-> TRUE, value |-> 1000],
   [text |-> "1a", digits |-> FALSE, value |-> 1]}

PinInit ==
  /\ pinTable = {}
  /\ dbCalls = 0
  /\ lastUpsert = [k \in PinContents \X Peers |-> "none"]
  /\ pgParam \in RequestIdParams
  /\ pgResponse = "none"
  /\ pgStatus = "none"
  /\ pgPrev = "none"
  /\ pgFresh = FALSE
  /\ yielded = [limit |-> 0, urls |-> [i \in DOMAIN PinRequests |-> NoUrl], out |-> <<>>]

\* client.js:351-372: one call of upsertPin(cid, pin), by any caller.
UpsertPin(cid, pin) ==
  /\ dbCalls < MaxDbCalls
  /\ dbCalls' = dbCalls + 1
  /\ pinTable' = upsert_pin(pinTable, UpsertPinData(cid, pin))
  /\ lastUpsert' = [lastUpsert EXCEPT ![<<cid, pin.location.peerId>>] = pin.status]
  /\ pgFresh' = FALSE
  /\ UNCHANGED <<pgParam, pgResponse, pgStatus, pgPrev, yielded>>

\* Mutant: the status the request was created with is returned.
PinGetStatus_AsCreated(pinRequest) == "queued"

\* pins.js:173
PinGetStatus(pinRequest) == getPinningAPIStatus(pinRequest.pins)

\* pins.js:145-184: one pinGet request.
PinGet ==
  /\ pgFresh' = TRUE
  /\ pgPrev' = pgStatus
  /\ IF ~pgParam.digits
     THEN pgResponse' = "Request id should be a string" /\ pgStatus' = "none"
     ELSE LET requestId == pgParam.value IN
          IF requestId \notin DOMAIN PinRequests
          THEN pgResponse' = "notFound" /\ pgStatus' = "none"
          ELSE /\ pgResponse' = "ok"
               /\ pgStatus' = PinGetStatus(getPAPinRequest(pinTable, requestId))
  /\ UNCHANGED <<pinTable, dbCalls, lastUpsert, pgParam, yielded>>

\* const LIMIT = process.env.QUERY_LIMIT ?? 10000
LIMIT == 10000
QueryLimits == {1, LIMIT}

\* Lines 185-192: the rows of psa_pin_request joined with the rows of pin of
\* the same content, where the pin is Pinned and the request has no backup
\* URL. SELECT * names two columns `id`: the row object keeps the last.
GET_PINNED_PINS_QUERY(table, urls) ==
  {[id |-> x[2].id, request |-> x[1], content_cid |-> PinRequests[x[1]],
    source_cid |-> PinRequests[x[1]], user_id |-> "u1", status |-> x[2].status,
    backup_urls |-> urls[x[1]]] :
     x \in {y \in (DOMAIN PinRequests) \X table :
              /\ y[2].content_cid = PinRequests[y[1]]
              /\ y[2].status = "Pinned"
              /\ urls[y[1]] = NoUrl}}

\* Lines 165-182: one run of getPinsNotBackedUp. LIMIT keeps any `limit` of
\* the rows; a row is dropped if it has a truthy `url`; a candidate is
\* yielded for every row left.
GetPinsNotBackedUp ==
  /\ \E limit \in QueryLimits, urls \in [DOMAIN PinRequests -> {NoUrl, <<"complete", "c">>}] :
       LET all == GET_PINNED_PINS_QUERY(pinTable, urls) IN
       \E rows \in SUBSET all :
         /\ Cardinality(rows) = IF Cardinality(all) < limit THEN Cardinality(all) ELSE limit
         /\ LET uploads_ == {r \in rows : Prop(r, "url") = Undefined} IN
            yielded' = [limit |-> limit, urls |-> urls,
                        out |-> [r \in uploads_ |-> Candidate(r)]]
  /\ UNCHANGED <<pinTable, dbCalls, lastUpsert, pgParam, pgResponse, pgStatus, pgPrev, pgFresh>>

----------------------------------------------------------------------------
\* The storage-usage tasks of two uploads (car.js:193-204)

Uploads == {1, 2}
Users == {"u1", "u2"}

\* Lines 197-200: the variables of the mutation.
IncrementVariables(user, amount) == [user |-> user, amount |-> amount]

\* incrementUserUsedStorage of the database: one atomic addition.
incrementUserUsedStorage(stored, amount) == stored + amount

\* Mutant: the task adds the amount to the value it read when it was pushed.
StorageAfter_ReadThenWrite(current, seen, variables) == seen + variables.amount

\* Lines 197-200: the task makes one call, which carries the amount; the
\* used storage after it is the database's work on the value it holds.
StorageAfter(current, seen, variables) == incrementUserUsedStorage(current, variables.amount)

TaskInit ==
  /\ taskPc = [u \in Uploads |-> "none"]
  /\ taskUser = [u \in Uploads |-> "u1"]
  /\ taskAmount = [u \in Uploads |-> 0]
  /\ taskSeen = [u \in Uploads |-> 0]
  /\ taskFailed = [u \in Uploads |-> FALSE]
  /\ userStorage \in [Users -> 0..MaxUsedStorage]
  /\ baseStorage = userStorage

\* Lines 193-195: an upload of a user, whose record is created, pushes its task.
PushTask(u) ==
  /\ taskPc[u] = "none"
  /\ taskPc' = [taskPc EXCEPT ![u] = "pushed"]
  /\ \E user \in Users, amount \in 1..MaxDagSize :
       /\ taskUser' = [taskUser EXCEPT ![u] = user]
       /\ taskAmount' = [taskAmount EXCEPT ![u] = amount]
       /\ taskSeen' = [taskSeen EXCEPT ![u] = userStorage[user]]
  /\ UNCHANGED <<taskFailed, userStorage, baseStorage>>

\* Lines 195-204: the task runs; a failure of the mutation is logged.
RunTask(u) ==
  /\ taskPc[u] = "pushed"
  /\ taskPc' = [taskPc EXCEPT ![u] = "done"]
  /\ LET variables == IncrementVariables(taskUser[u], taskAmount[u]) IN
       \/ /\ userStorage' = [userStorage EXCEPT ![variables.user] =
                               StorageAfter(@, taskSeen[u], variables)]
          /\ UNCHANGED taskFailed
       \/ /\ taskFailed' = [taskFailed EXCEPT ![u] = TRUE]
          /\ UNCHANGED userStorage
  /\ UNCHANGED <<taskUser, taskAmount, taskSeen, baseStorage>>

----------------------------------------------------------------------------
\* Pinning service API (pins.js): pinPost, createPin

\* The values a field of a JSON body or of the request parameters can hold:
\* the type, the text of a string, number or boolean, and for an array its
\* elements, for an object the types of its values.
JsUndefined == [t |-> "undefined", s |-> "", items |-> {}]
JsString(str) == [t |-> "string", s |-> str, items |-> {}]
JsOther(type, text, elems) == [t |-> type, s |-> text, items |-> elems]

\* The truthiness of a value, its typeof, Array.isArray.
Truthy(x) == ~(x.t = "undefined" \/ (x.t \in {"string", "number"} /\ x.s \in {"", "0"})
                 \/ (x.t = "boolean" /\ x.s = "false"))
TypeOf(x) == IF x.t = "array" THEN "object" ELSE x.t
IsArray(x) == x.t = "array"

\* The CID a string spells.
CidOf(str) ==
  CASE str = "Qm-h1" -> [version |-> 0, base |-> "base58btc", code |-> "dag-pb", hash |-> "h1"]
    [] str = "bafy-h1" -> [version |-> 1, base |-> "base32", code |-> "dag-pb", hash |-> "h1"]
    [] OTHER -> NotACid

\* normalizeCid of utils/normalize-cid.js: the version 1 string of a CID, or a throw.
normalizeCid(cid) == IF cid.t = "string" THEN parseCid(CidOf(cid.s)) ELSE InvalidCidError

\* The bodies of the requests: each field absent, well formed, or malformed
\* with a truthy or with a falsy value.
PinDatas ==
  [cid : {JsUndefined, JsString(""), JsString("Qm-h1"), JsString("bafy-h1"), JsString("xyz")},
   name : {JsUndefined, JsString("n"), JsOther("number", "7", {}), JsOther("boolean", "false", {})},
   origins : {JsUndefined, JsOther("array", "", {"/ip4"}), JsString("/ip4"), JsOther("number", "0", {})},
   meta : {JsUndefined, JsOther("object", "", {"string"}), JsOther("object", "", {"string", "number"}),
           JsOther("array", "", {"a"}), JsString("m")}]

\* Lines 64-106: the details of the error response, "valid" if there is none.
PinPostValidate(pinData) ==
  IF ~Truthy(pinData.cid) THEN "CID is required"
  ELSE IF normalizeCid(pinData.cid) = InvalidCidError THEN "Invalid cid"
  ELSE IF Truthy(pinData.name) /\ TypeOf(pinData.name) # "string" THEN "Name should be a string"
  ELSE IF Truthy(pinData.origins) /\ ~IsArray(pinData.origins)
  THEN "Origins should be an array of strings"
  ELSE IF Truthy(pinData.meta)
          /\ (TypeOf(pinData.meta) # "object" \/ IsArray(pinData.meta)
                \/ pinData.meta.items # {"string"})
  THEN "Meta should be an object with string values"
  ELSE "valid"

NoResponse == [status |-> 0, details |-> "", pinStatus |-> "", cid |-> NotCalled]
Rejected == [status |-> 500, details |-> "", pinStatus |-> "", cid |-> NotCalled]

\* { error: { reason: ERROR_STATUS, details } }, { status: ERROR_CODE }
ErrorResponse(details) == [status |-> 400, details |-> details, pinStatus |-> "", cid |-> NotCalled]

\* Mutant: the response carries the cid as it was requested.
CreatePinResponse_Requested(pinData) ==
  [status |-> 200, details |-> "", pinStatus |-> toPinStatusEnum("pin_queued"),
   cid |-> CidOf(pinData.cid.s)]

\* Lines 133-139: serviceApiPinStatus.
CreatePinResponse(pinData) ==
  [status |-> 200, details |-> "", pinStatus |-> toPinStatusEnum("pin_queued"),
   cid |-> normalizeCid(pinData.cid)]

PpInit ==
  /\ ppData \in PinDatas
  /\ ppWaitUntil \in BOOLEAN
  /\ ppPc = "request"
  /\ ppResponse = NoResponse
  /\ ppCalls = {}
  /\ ppTask = "none"
  /\ ppOkPins = {}
  /\ ppUpserted = {}
  /\ ppContent = "none"
  /\ ppIssuedEarly = FALSE

\* Lines 60-111 and 120-126: pinPost validates the body; createPin calls
\* cluster.pin, which it does not await, and createPAPinRequest.
PinPost ==
  /\ ppPc = "request"
  /\ LET details == PinPostValidate(ppData) IN
     IF details # "valid"
     THEN ppResponse' = ErrorResponse(details) /\ ppPc' = "returned" /\ UNCHANGED ppCalls
     ELSE /\ ppCalls' = {"cluster.pin", "createPAPinRequest"}
          /\ ppPc' = "persist"
          /\ UNCHANGED ppResponse
  /\ UNCHANGED <<ppData, ppWaitUntil, ppTask, ppOkPins, ppUpserted, ppContent, ppIssuedEarly>>

\* Lines 126-156: createPAPinRequest has settled. A rejection is the
\* handler's failure; otherwise the response is built, the task is called
\* if ctx.waitUntil exists and runs up to waitToGetOkPins, and the response
\* is returned.
CreatePinReturn ==
  /\ ppPc = "persist"
  /\ ppPc' = "returned"
  /\ \/ /\ ppResponse' = Rejected
        /\ UNCHANGED <<ppCalls, ppTask>>
     \/ /\ ppResponse' = CreatePinResponse(ppData)
        /\ ppCalls' = ppCalls \cup {"pin request persisted"}
        /\ ppTask' = IF ppWaitUntil THEN "wait" ELSE "none"
  /\ UNCHANGED <<ppData, ppWaitUntil, ppOkPins, ppUpserted, ppContent, ppIssuedEarly>>

\* Lines 145-148: waitToGetOkPins has settled. With its pins the task calls
\* createContent, which it does not await, and the first upsertPin.
TaskOkPins ==
  /\ ppTask = "wait"
  /\ \/ /\ ppTask' = "failed"
        /\ UNCHANGED <<ppOkPins, ppContent, ppIssuedEarly>>
     \/ \E ok \in SUBSET Peers :
          /\ ppOkPins' = ok
          /\ ppContent' = "issued"
          /\ ppTask' = IF ok = {} THEN "done" ELSE "upsert"
          /\ ppIssuedEarly' = (ok # {})
  /\ UNCHANGED <<ppData, ppWaitUntil, ppPc, ppResponse, ppCalls, ppUpserted>>

\* Lines 147-149: the upsertPin awaited has settled; the loop goes on to
\* the next pin, or the rejection ends the task.
TaskUpsert ==
  /\ ppTask = "upsert"
  /\ \/ /\ ppTask' = "failed"
        /\ UNCHANGED <<ppUpserted, ppIssuedEarly>>
     \/ \E pin \in ppOkPins \ ppUpserted :
          /\ ppUpserted' = ppUpserted \cup {pin}
          /\ IF ppUpserted' = ppOkPins
             THEN ppTask' = "done" /\ UNCHANGED ppIssuedEarly
             ELSE ppTask' = "upsert" /\ ppIssuedEarly' = (ppIssuedEarly \/ ppContent # "done")
  /\ UNCHANGED <<ppData, ppWaitUntil, ppPc, ppResponse, ppCalls, ppOkPins, ppContent>>

\* Line 146: the promise of createContent settles.
ContentSettles ==
  /\ ppContent = "issued"
  /\ ppContent' \in {"done", "failed"}
  /\ UNCHANGED <<ppData, ppWaitUntil, ppPc, ppResponse, ppCalls, ppTask, ppOkPins, ppUpserted,
                 ppIssuedEarly>>

----------------------------------------------------------------------------
\* Pinning service API (pins.js): pinsGet; status.js: statusGet

MATCH_OPTIONS == {"exact", "iexact", "partial", "ipartial"}
STATUS_OPTIONS == {"queued", "pinning", "pinned", "failed"}

\* The filters of a listing: each absent, well formed, or malformed.
PinsGetParams ==
  [cid : {JsUndefined, JsString("Qm-h1"), JsString("xyz")},
   name : {JsUndefined, JsString("n"), JsOther("number", "7", {})},
   match : {JsUndefined, JsString("exact"), JsString("fuzzy"), JsOther("number", "7", {}),
            JsOther("array", "", {"exact"})},
   status : {JsUndefined, JsOther("array", "", {"queued", "pinned"}),
             JsOther("array", "", {"queued", "bogus"}), JsString("queued"), JsString("bogus"),
             JsOther("number", "7", {})}]

\* options.includes(x) for an array of strings: only a string is found.
OptionsInclude(options, x) == x.t = "string" /\ x.s \in options

\* Lines 191-247: the details of the error response, "OK" if there is none,
\* "TypeError" where status.every is called on a value that is no array.
PinsGetValidate(params) ==
  IF Truthy(params.cid) /\ normalizeCid(params.cid) = InvalidCidError THEN "Invalid cid"
  ELSE IF Truthy(params.name) /\ TypeOf(params.name) # "string" THEN "Name should be a string"
  ELSE IF Truthy(params.match) /\ TypeOf(params.match) # "string"
  THEN IF ~OptionsInclude(MATCH_OPTIONS, params.match)
       THEN "Match should be \"exact\", \"iexact\", \"partial\", or \"ipartial\""
       ELSE "Match should be a string (i.e. \"exact\", \"iexact\", \"partial\", \"ipartial\")"
  ELSE IF Truthy(params.status) /\ ~IsArray(params.status)
  THEN IF ~IsArray(params.status) THEN "TypeError"   \* only an array has `every`
       ELSE IF \E v \in params.status.items : v \notin STATUS_OPTIONS
       THEN "Status should be \"queued\", \"pinning\", \"pinned\", or \"failed\""
       ELSE "Status should be an array of strings"
  ELSE "OK"

\* The rows of content: a dagSize, NoSize where the table has no row.
NoSize == -1
StatusCids == {c \in CidStrings : c.version = 1 /\ c.base = "base32" /\ c.code = "dag-pb"}
NoRow == [cid |-> NotCalled, dagSize |-> NoSize]

\* client.js, getStatus: the row of content that matches the cid, NoRow if
\* there is none.
getStatus(table, cid) ==
  IF cid \in DOMAIN table /\ table[cid] # NoSize
  THEN [cid |-> cid, dagSize |-> table[cid]]
  ELSE NoRow

\* Mutant: the status is looked up under the cid as requested.
StatusKey_Requested(cid) == cid

\* status.js, lines 13-14.
StatusKey(cid) == parseCid(cid)

GetInit ==
  /\ getParams = [cid |-> JsUndefined, name |-> JsUndefined, match |-> JsUndefined,
                  status |-> JsUndefined]
  /\ getResponse = NoResponse
  /\ contentTable \in [StatusCids -> {NoSize, 10, 20}]
  /\ stCid = NotCalled
  /\ stKey = NotCalled
  /\ stResponse = [status |-> 0, body |-> NoRow]

\* pins.js, lines 191-247. One listing is followed.
PinsGet ==
  /\ getResponse = NoResponse
  /\ \E params \in PinsGetParams :
       /\ getParams' = params
       /\ getResponse' =
            LET details == PinsGetValidate(params) IN
            IF details = "OK" THEN [NoResponse EXCEPT !.status = 200, !.details = "OK"]
            ELSE IF details = "TypeError" THEN [Rejected EXCEPT !.details = "TypeError"]
            ELSE ErrorResponse(details)
  /\ UNCHANGED <<contentTable, stCid, stKey, stResponse>>

\* status.js, lines 12-26: parseCid throws, getStatus throws, there is no
\* record, or the record is returned with its cid replaced. One request is
\* followed.
StatusGet ==
  /\ stCid = NotCalled
  /\ \E cid \in CidInputs :
       /\ stCid' = cid
       /\ IF parseCid(cid) = InvalidCidError
          THEN /\ stKey' = NotCalled
               /\ stResponse' = [status |-> 400, body |-> NoRow]
          ELSE /\ stKey' = StatusKey(cid)
               /\ \/ stResponse' = [status |-> 500, body |-> NoRow]
                  \/ LET res == getStatus(contentTable, stKey') IN
                     stResponse' = IF res = NoRow THEN [status |-> 404, body |-> NoRow]
                                   ELSE [status |-> 200, body |-> [res EXCEPT !.cid = cid]]
  /\ UNCHANGED <<getParams, getResponse, contentTable>>

----------------------------------------------------------------------------
\* Specifications

AggIdle == pins = <<>> /\ apiStatus = "none"
CarIdle == CarInit /\ roots = <<>>
BkIdle == BkInit /\ concurrency = 1 /\ items = <<>>
CidIdle == CidInit /\ cidA = NotAString /\ cidB = NotAString
PinIdle == PinInit /\ pgParam.text = "1"
TaskIdle == TaskInit /\ userStorage = [u \in Users |-> 0]
PpIdle == PpInit /\ ppWaitUntil = TRUE /\ ppData = [cid |-> JsUndefined, name |-> JsUndefined, origins |-> JsUndefined, meta |-> JsUndefined]

GetIdle == GetInit /\ contentTable = [c \in StatusCids |-> NoSize]

InitAgg == AggInit /\ CarIdle /\ UpInit /\ waitUntil = TRUE /\ EnvInit /\ BkIdle /\ CidIdle /\ PinIdle /\ TaskIdle /\ PpIdle /\ GetIdle
NextAgg == Aggregate /\ UNCHANGED <<carVars, upVars, envVars, bkVars, cidVars, pinVars, taskVars, ppVars, getVars>>
SpecAgg == InitAgg /\ [][NextAgg]_vars

InitCar == AggIdle /\ CarInit /\ UpInit /\ waitUntil = TRUE /\ EnvInit /\ BkIdle /\ CidIdle /\ PinIdle /\ TaskIdle /\ PpIdle /\ GetIdle
NextCar ==
  \/ CarStatRoots /\ UNCHANGED <<aggVars, upVars, envVars, bkVars, cidVars, pinVars, taskVars, ppVars, getVars>>
  \/ (\E block \in Blocks : CarStatBlock(block)) /\ UNCHANGED <<aggVars, upVars, envVars, bkVars, cidVars, pinVars, taskVars, ppVars, getVars>>
  \/ CarStatEnd /\ UNCHANGED <<aggVars, upVars, envVars, bkVars, cidVars, pinVars, taskVars, ppVars, getVars>>
SpecCar == InitCar /\ [][NextCar]_vars

InitUpload == AggIdle /\ CarInit /\ UpInit /\ EnvInit /\ BkIdle /\ CidIdle /\ PinIdle /\ TaskIdle /\ PpIdle /\ GetIdle
NextUpload ==
  \/ CarStatRoots /\ UNCHANGED <<aggVars, upVars, envVars, bkVars, cidVars, pinVars, taskVars, ppVars, getVars>>
  \/ (\E block \in UploadBlocks : CarStatBlock(block))
       /\ UNCHANGED <<aggVars, upVars, envVars, bkVars, cidVars, pinVars, taskVars, ppVars, getVars>>
  \/ CarStatEnd /\ UNCHANGED <<aggVars, upVars, envVars, bkVars, cidVars, pinVars, taskVars, ppVars, getVars>>
  \/ HandleCarStat /\ UNCHANGED <<aggVars, carVars, bkVars, cidVars, pinVars, taskVars, ppVars, getVars>>
  \/ ClusterAdd /\ UNCHANGED <<aggVars, carVars, bkVars, cidVars, pinVars, taskVars, ppVars, getVars>>
  \/ ClusterStatus /\ UNCHANGED <<aggVars, carVars, bkVars, cidVars, pinVars, taskVars, ppVars, getVars>>
  \/ CreateUpload /\ UNCHANGED <<aggVars, carVars, bkVars, cidVars, pinVars, taskVars, ppVars, getVars>>
  \/ IncrementUsedStorage /\ UNCHANGED <<aggVars, carVars, bkVars, cidVars, pinVars, taskVars, ppVars, getVars>>
  \/ ClusterChange /\ UNCHANGED <<aggVars, carVars, upVars, bkVars, cidVars, pinVars, taskVars, ppVars, getVars>>
  \/ Tick /\ UNCHANGED <<aggVars, carVars, upVars, bkVars, cidVars, pinVars, taskVars, ppVars, getVars>>
\* ReconcileSleep, ReconcilePoll and ReconcileUpsert are no disjuncts of
\* NextUpload: the task enters them from recPc = "sleep" only, which
\* ScheduleReconcile reaches only when WhileCond holds of an elapsed time of 0.
SpecUpload == InitUpload /\ [][NextUpload]_vars

InitBackup == AggIdle /\ CarIdle /\ UpInit /\ waitUntil = TRUE /\ EnvInit /\ BkInit /\ CidIdle /\ PinIdle /\ TaskIdle /\ PpIdle /\ GetIdle
NextBackup ==
  \/ BackupTakeBatch /\ UNCHANGED <<aggVars, carVars, upVars, envVars, cidVars, pinVars, taskVars, ppVars, getVars>>
  \/ (\E i \in 1..Len(items) : ItemStep(i)) /\ UNCHANGED <<aggVars, carVars, upVars, envVars, cidVars, pinVars, taskVars, ppVars, getVars>>
  \/ BackupEndBatch /\ UNCHANGED <<aggVars, carVars, upVars, envVars, cidVars, pinVars, taskVars, ppVars, getVars>>
  \/ BackupDone /\ UNCHANGED <<aggVars, carVars, upVars, envVars, cidVars, pinVars, taskVars, ppVars, getVars>>
SpecBackup == InitBackup /\ [][NextBackup]_vars

InitCid ==
  AggIdle /\ CarIdle /\ UpInit /\ waitUntil = TRUE /\ EnvInit /\ BkIdle /\ CidInit
    /\ PinIdle /\ TaskIdle /\ PpIdle /\ GetIdle
NextCid ==
  \/ ParseCidBoth /\ UNCHANGED <<aggVars, carVars, upVars, envVars, bkVars, pinVars, taskVars, ppVars, getVars>>
  \/ ParseCidAgain /\ UNCHANGED <<aggVars, carVars, upVars, envVars, bkVars, pinVars, taskVars, ppVars, getVars>>
SpecCid == InitCid /\ [][NextCid]_vars

InitPins ==
  AggIdle /\ CarIdle /\ UpInit /\ waitUntil = TRUE /\ EnvInit /\ BkIdle /\ CidIdle
    /\ PinInit /\ TaskIdle /\ PpIdle /\ GetIdle
NextPins ==
  \/ (\E cid \in PinContents, pin \in PinInputs : UpsertPin(cid, pin))
       /\ UNCHANGED <<aggVars, carVars, upVars, envVars, bkVars, cidVars, taskVars, ppVars, getVars>>
  \/ PinGet /\ UNCHANGED <<aggVars, carVars, upVars, envVars, bkVars, cidVars, taskVars, ppVars, getVars>>
SpecPins == InitPins /\ [][NextPins]_vars

InitQuery ==
  AggIdle /\ CarIdle /\ UpInit /\ waitUntil = TRUE /\ EnvInit /\ BkIdle /\ CidIdle
    /\ PinIdle /\ TaskIdle /\ PpIdle /\ GetIdle
NextQuery ==
  \/ (\E cid \in PinContents, pin \in PinInputs : UpsertPin(cid, pin))
       /\ UNCHANGED <<aggVars, carVars, upVars, envVars, bkVars, cidVars, taskVars, ppVars, getVars>>
  \/ GetPinsNotBackedUp /\ UNCHANGED <<aggVars, carVars, upVars, envVars, bkVars, cidVars, taskVars, ppVars, getVars>>
SpecQuery == InitQuery /\ [][NextQuery]_vars

InitTasks ==
  AggIdle /\ CarIdle /\ UpInit /\ waitUntil = TRUE /\ EnvInit /\ BkIdle /\ CidIdle
    /\ PinIdle /\ TaskInit /\ PpIdle /\ GetIdle
NextTasks ==
  \/ (\E u \in Uploads : PushTask(u))
       /\ UNCHANGED <<aggVars, carVars, upVars, envVars, bkVars, cidVars, pinVars, ppVars, getVars>>
  \/ (\E u \in Uploads : RunTask(u))
       /\ UNCHANGED <<aggVars, carVars, upVars, envVars, bkVars, cidVars, pinVars, ppVars, getVars>>
SpecTasks == InitTasks /\ [][NextTasks]_vars

InitPinPost ==
  AggIdle /\ CarIdle /\ UpInit /\ waitUntil = TRUE /\ EnvInit /\ BkIdle /\ CidIdle
    /\ PinIdle /\ TaskIdle /\ PpInit /\ GetIdle
NextPinPost ==
  \/ PinPost /\ UNCHANGED <<aggVars, carVars, upVars, envVars, bkVars, cidVars, pinVars, taskVars, getVars>>
  \/ CreatePinReturn /\ UNCHANGED <<aggVars, carVars, upVars, envVars, bkVars, cidVars, pinVars, taskVars, getVars>>
  \/ TaskOkPins /\ UNCHANGED <<aggVars, carVars, upVars, envVars, bkVars, cidVars, pinVars, taskVars, getVars>>
  \/ TaskUpsert /\ UNCHANGED <<aggVars, carVars, upVars, envVars, bkVars, cidVars, pinVars, taskVars, getVars>>
  \/ ContentSettles /\ UNCHANGED <<aggVars, carVars, upVars, envVars, bkVars, cidVars, pinVars, taskVars, getVars>>
SpecPinPost == InitPinPost /\ [][NextPinPost]_vars

InitGet ==
  AggIdle /\ CarIdle /\ UpInit /\ waitUntil = TRUE /\ EnvInit /\ BkIdle /\ CidIdle
    /\ PinIdle /\ TaskIdle /\ PpIdle /\ GetInit
NextGet ==
  \/ PinsGet /\ UNCHANGED <<aggVars, carVars, upVars, envVars, bkVars, cidVars, pinVars, taskVars, ppVars>>
  \/ StatusGet /\ UNCHANGED <<aggVars, carVars, upVars, envVars, bkVars, cidVars, pinVars, taskVars, ppVars>>
SpecGet == InitGet /\ [][NextGet]_vars

----------------------------------------------------------------------------
\* Claims

StatusSet == {pins[i].status : i \in 1..Len(pins)}

\* C1: getPinningAPIStatus returns exactly one of queued, pinning, pinned,
\* failed, by first-match precedence: pinned if any status is Pinned; else
\* pinning if any is Pinning; else queued if any is PinQueued or Remote; else
\* queued if the collection is empty; else failed.
C1_Precedence ==
  apiStatus # "none" =>
    /\ apiStatus \in {"queued", "pinning", "pinned", "failed"}
    /\ "Pinned" \in StatusSet => apiStatus = "pinned"
    /\ "Pinned" \notin StatusSet /\ "Pinning" \in StatusSet => apiStatus = "pinning"
    /\ StatusSet \cap {"Pinned", "Pinning"} = {} /\ StatusSet \cap {"PinQueued", "Remote"} # {}
         => apiStatus = "queued"
    /\ StatusSet = {} => apiStatus = "queued"
    /\ StatusSet # {} /\ StatusSet \cap {"Pinned", "Pinning", "PinQueued", "Remote"} = {}
         => apiStatus = "failed"

C1_Witness ==
  /\ pins = <<[status |-> "Unpinned"], [status |-> "Pinning"], [status |-> "PinQueued"]>>
  /\ apiStatus = "pinning"

\* C2: a collection containing a replica in the Sharded state aggregates to
\* pinned.
C2_ShardedIsPinned ==
  apiStatus # "none" /\ "Sharded" \in StatusSet => apiStatus = "pinned"

\* C3: carStat checks the root list before it streams any block: with zero
\* roots it fails with 'missing roots', with two or more with 'too many
\* roots', and the iterator has yielded no block.
C3_RootsChecked ==
  /\ Len(roots) # 1 => pulled = 0
  /\ Len(roots) = 0 /\ carPc # "roots" => carPc = "done" /\ carResult = "missing roots"
  /\ Len(roots) > 1 /\ carPc # "roots" => carPc = "done" /\ carResult = "too many roots"

C3_Witness == carPc = "done" /\ carResult = "too many roots" /\ Len(roots) = 2

\* C4: for a single-root CAR, carStat fails with 'block too big' exactly when
\* the stream has yielded a block longer than MAX_BLOCK_SIZE, at whatever
\* position; a block of exactly MAX_BLOCK_SIZE bytes is not rejected.
C4_BlockTooBig ==
  Len(roots) = 1 =>
    /\ maxLen > MAX_BLOCK_SIZE => carPc = "done" /\ carResult = "block too big"
    /\ carResult = "block too big" => maxLen > MAX_BLOCK_SIZE

\* The oversized block comes third, after the root block.
C4_Witness ==
  /\ carResult = "block too big"
  /\ pulled = 3
  /\ rootAt = 1
  /\ blocks = 2

IncompleteDagMsg == "CAR must contain at least one non-root block"

\* The stream held one block, the root block, a dag-pb node with links.
RootOnlyWithLinks(block) ==
  /\ carPc = "done"
  /\ Len(roots) = 1
  /\ pulled = 1
  /\ block # NoBlock
  /\ block.cid = rootCid
  /\ rootCid.code = "dag-pb"
  /\ Len(block.bytes.encLinks) > 0

\* C5 as stated: every CAR whose root is a dag-pb node with links and whose
\* stream holds the root block only fails with the incomplete-DAG error.
C5_RootOnlyIncomplete ==
  (RootOnlyWithLinks(rawRootBlock) \/ RootOnlyWithLinks(rejected))
    => carResult = IncompleteDagMsg

\* C5 amended: every CAR whose root is a dag-pb node with links, of at most
\* MAX_BLOCK_SIZE bytes, and whose stream holds the root block only fails with
\* the incomplete-DAG error (a longer root block fails with 'block too big');
\* with two or more streamed blocks carStat never fails with that error.
C5_RootOnlyIncompleteWithinLimit ==
  /\ RootOnlyWithLinks(rawRootBlock) => carResult = IncompleteDagMsg
  /\ RootOnlyWithLinks(rejected) => carResult = "block too big"
  /\ carResult = IncompleteDagMsg => blocks = 1 /\ pulled = 1

C5_Witness ==
  /\ RootOnlyWithLinks(rawRootBlock)
  /\ carResult = IncompleteDagMsg
  /\ rawRootBlock.bytes.encLinks = <<100, 200>>

\* The dag-pb root of C6: 50 bytes long, two links of Tsize 100 and 200.
Node350 == [byteLength |-> 50, encLinks |-> <<100, 200>>]

\* carStat has consumed a whole CAR of n blocks whose root is Node350.
WholeCarOfNode350(n) ==
  /\ carPc = "done"
  /\ Len(roots) = 1
  /\ rootCid.code = "dag-pb"
  /\ rawRootBlock.bytes = Node350
  /\ maxLen <= MAX_BLOCK_SIZE
  /\ pulled = n
  /\ blocks = n

\* C6 as stated: for that root carStat resolves size to 350 both for the
\* 1-block CAR (root only) and for the 3-block CAR.
C6_Size350Always ==
  WholeCarOfNode350(1) \/ WholeCarOfNode350(3) => carResult = "ok" /\ size = 350

\* C6 amended: for that root carStat resolves size to 350 for every CAR that
\* holds the root and at least one more block (the 2-block shard and the
\* 3-block DAG alike); the 1-block CAR is rejected with the incomplete-DAG
\* error and no size is resolved.
C6_Size350WithChild ==
  /\ WholeCarOfNode350(2) \/ WholeCarOfNode350(3) => carResult = "ok" /\ size = 350
  /\ WholeCarOfNode350(1) => carResult = IncompleteDagMsg

C6_Witness == WholeCarOfNode350(3) /\ carResult = "ok" /\ size = 350

\* The Tsize a link declares, a missing one counting as 0.
DeclaredSize(t) == IF t = NoTsize THEN 0 ELSE t

RECURSIVE DeclaredSum(_)
DeclaredSum(ls) ==
  IF Len(ls) = 0 THEN 0 ELSE DeclaredSum(SubSeq(ls, 1, Len(ls) - 1)) + DeclaredSize(ls[Len(ls)])

\* C7: for every accepted CAR whose root codec is dag-pb, size is the root
\* block's byte length plus the sum of the Tsize its links declare, and blocks
\* is the number of blocks streamed.
C7_CumulativeSize ==
  carResult = "ok" /\ rootCid.code = "dag-pb" =>
    /\ size = rawRootBlock.bytes.byteLength + DeclaredSum(rawRootBlock.bytes.encLinks)
    /\ blocks = pulled

\* A link without Tsize counts as 0, and the sum replaces the raw sum (100).
C7_Witness ==
  /\ carResult = "ok"
  /\ rootCid.code = "dag-pb"
  /\ rawRootBlock.bytes = [byteLength |-> 50, encLinks |-> <<NoTsize, 100>>]
  /\ blocks = 2
  /\ size = 150

\* carStat has consumed a CAR of one block, the root block, of the given codec.
SingleBlockCar(code) ==
  /\ carPc = "done"
  /\ Len(roots) = 1
  /\ rootCid.code = code
  /\ pulled = 1
  /\ rootAt = 1

\* C8: a valid single-root, single-block raw CAR gets size equal to the
\* block's byte length and blocks equal to 1; a single dag-cbor block with no
\* links is accepted and the upload's dagSize is the block's byte length.
C8_SingleBlock ==
  /\ SingleBlockCar("raw") =>
       carResult = "ok" /\ blocks = 1 /\ size = rawRootBlock.bytes.byteLength
  /\ SingleBlockCar("dag-cbor") /\ rawRootBlock.bytes.encLinks = <<>> =>
       /\ carResult = "ok"
       /\ upPc # "carStat" => dagSize = rawRootBlock.bytes.byteLength
       /\ \A u \in uploads : u.dagSize = rawRootBlock.bytes.byteLength

C8_Witness ==
  /\ SingleBlockCar("dag-cbor")
  /\ rawRootBlock.bytes.encLinks = <<>>
  /\ response = "ok"
  /\ uploads = {[dagSize |-> 50, pins |-> upPins]}

\* C9: whenever carStat rejects the CAR, handleCarUpload fails with that
\* error without having called cluster.add or cluster.status, without any
\* persistence mutation and without any background task.
C9_FailBeforeWrite ==
  carResult \notin {"pending", "ok"} =>
    /\ addCalls = 0
    /\ statusCalls = 0
    /\ uploads = {}
    /\ dbPins = NoRows
    /\ pinUpserts = 0
    /\ usedStorage = 0
    /\ incPc = "none"
    /\ recPc = "none"
    /\ upPc = "done" => response = carResult
    /\ upPc \in {"carStat", "done"}

C9_Witness == upPc = "done" /\ response = "block too big" /\ blocks = 1

\* C10: while no replica is in an acceptable state and the elapsed time is
\* below MAX_PIN_STATUS_CHECK_TIME the reconciliation task stays in polling:
\* it ends only converged (a Pin upserted), faulted, or at the deadline.
C10_PollsUntilDeadline ==
  recPc = "done" =>
    \/ pinUpserts > 0
    \/ recEnd - start >= MAX_PIN_STATUS_CHECK_TIME

\* The Pin rows as the create-upload mutation writes them from the snapshot.
SnapshotRow(p) ==
  IF \E q \in upPins : q.location = p
  THEN (CHOOSE q \in upPins : q.location = p).status
  ELSE "none"

\* C11: a reconciliation task that ends normally before the deadline has
\* converged: it polled, observed at least one replica with an OK status and
\* upserted a Pin for every such replica, so that some Pin row of the content
\* has an OK status.
C11_EarlyExitConverged ==
  recPc = "done" /\ recEnd - start < MAX_PIN_STATUS_CHECK_TIME =>
    /\ statusCalls > 1
    /\ \E p \in Peers : dbPins[p] \in PIN_OK_STATUS

\* C12: when the first poll of the reconciliation task is due and the cluster
\* reports zero peers, the task ends with the no-replicas fault: it has not
\* ended normally without making that poll.
C12_ZeroPeersFault ==
  /\ recPc # "none"
  /\ now >= start + PIN_STATUS_CHECK_INTERVAL
  /\ cluster = NoPeers
  /\ statusCalls = 1
  => recPc # "done"

C14_CreateBeforeTasks ==
  /\ incPc # "none" \/ recPc # "none" =>
       createOk = 1 /\ uploads # {} /\ response = "ok"
  /\ upPc = "create" \/ response = "create upload failed" =>
       /\ incPc = "none"
       /\ recPc = "none"
       /\ usedStorage = 0
       /\ pinUpserts = 0

C14_Witness ==
  /\ response = "create upload failed"
  /\ waitUntil
  /\ OkPins(upPins) = {}
  /\ incPc = "none"
  /\ recPc = "none"

\* C15: the create-upload mutation is attempted at most
\* 1 + CREATE_UPLOAD_RETRIES times; no attempt follows a success; the handler
\* fails with the persistence error only after 1 + CREATE_UPLOAD_RETRIES
\* failed attempts; a successful response comes with exactly one successful
\* mutation and one Upload record.
C15_BoundedRetries ==
  /\ attempts <= 1 + CREATE_UPLOAD_RETRIES
  /\ createOk <= 1
  /\ createOk = 1 => upPc = "done" /\ response = "ok"
  /\ response = "create upload failed" =>
       attempts = 1 + CREATE_UPLOAD_RETRIES /\ createOk = 0 /\ uploads = {}
  /\ response = "ok" => createOk = 1 /\ Cardinality(uploads) = 1

C15_Witness ==
  /\ response = "ok"
  /\ attempts = 1 + CREATE_UPLOAD_RETRIES
  /\ createOk = 1

\* C16: once the Upload record is persisted the handler has returned its
\* success response, and keeps it whether the background tasks are pending,
\* have succeeded or have failed.
C16_ResponseIndependentOfTasks ==
  /\ uploads # {} => upPc = "done" /\ response = "ok"
  /\ incPc # "none" \/ recPc # "none" => response = "ok"

C16_Witness ==
  /\ response = "ok"
  /\ incPc = "done"
  /\ dagSize > 0
  /\ usedStorage = 0

\* C17 (as stated): for every persisted upload the storage-usage task is
\* started, and the reconciliation task is started if and only if no pin of
\* the snapshot has an OK status.
C17_TasksScheduled ==
  uploads # {} =>
    /\ incPc # "none"
    /\ recPc # "none" <=> OkPins(upPins) = {}

\* C17 (amended): with ctx.waitUntil, for every persisted upload the
\* storage-usage task is started once, for the amount dagSize, and the
\* reconciliation task is started if and only if no pin of the snapshot has an
\* OK status; without ctx.waitUntil neither task is started.
C17_TasksScheduledWithWaitUntil ==
  /\ uploads # {} /\ waitUntil =>
       /\ incPc # "none"
       /\ recPc # "none" <=> OkPins(upPins) = {}
  /\ ~waitUntil => incPc = "none" /\ recPc = "none"
  /\ usedStorage \in {0, dagSize}
  /\ incPc # "done" => usedStorage = 0

C17_Witness ==
  /\ uploads # {}
  /\ waitUntil
  /\ OkPins(upPins) = {}
  /\ recPc = "done"
  /\ incPc = "done"
  /\ usedStorage = dagSize
  /\ dagSize > 0

\* C18: when cluster.status reports zero peers right after cluster.add the
\* handler fails with 'not pinning on any node'; it has not attempted the
\* create-upload mutation, no Upload record or Pin row exists and no
\* background task has been called; the mutation is attempted with a
\* non-empty snapshot only.
C18_NoReplicasNoRecord ==
  /\ response = "not pinning on any node" =>
       /\ attempts = 0
       /\ uploads = {}
       /\ dbPins = NoRows
       /\ usedStorage = 0
       /\ incPc = "none"
       /\ recPc = "none"
  /\ upPc = "create" \/ attempts > 0 => upPins # {}
  /\ upPc = "done" /\ statusCalls = 1 /\ recPc = "none" /\ cluster = NoPeers =>
       response = "not pinning on any node"

C18_Witness ==
  /\ response = "not pinning on any node"
  /\ addCalls = 1
  /\ statusCalls = 1
  /\ cluster = NoPeers

\* C19: the failure of an item at any stage leaves the job running: the job
\* never aborts, the batching goes on to the candidates after a failed one,
\* and when the job has completed every candidate of getPinsNotBackedUp has
\* been taken and has settled, each counted as successful only if no stage
\* of it failed.
C19_ItemFailureCaught ==
  /\ bkPc # "aborted"
  /\ bkPc = "done" =>
       /\ taken = Len(items)
       /\ \A i \in 1..Len(items) : items[i] \in Settled
       /\ totalSuccessful = Cardinality({i \in 1..Len(items) : items[i] = "ok"})

C19_Witness ==
  /\ bkPc = "done"
  /\ Len(items) >= 3
  /\ concurrency < Len(items)
  /\ items[1] = "failed"
  /\ items[Len(items)] = "ok"
  /\ totalProcessed >= 2

\* C20: at every moment at most `concurrency` items are in a stage of their
\* pipe, all of them items of the batch in progress: every item of an earlier
\* batch has settled, and no item of a later batch has started.
C20_BoundedConcurrency ==
  /\ Cardinality({i \in 1..Len(items) : items[i] \in InFlight}) <= concurrency
  /\ \A i \in 1..Len(items) :
       /\ items[i] \in InFlight => i \in CurrentBatch
       /\ i < batchStart => items[i] \in Settled
       /\ i > taken => items[i] = "pending"
  /\ Cardinality(CurrentBatch) <= concurrency

C20_Witness ==
  /\ concurrency = 2
  /\ batchStart = 3
  /\ Cardinality({i \in 1..Len(items) : items[i] \in InFlight}) = 2
  /\ items[1] = "failed"
  /\ items[2] = "ok"

\* C24: with a single root, carStat fails with 'empty CAR' exactly when the
\* iterator ended without yielding a block, and with 'missing root block'
\* exactly when it ended after yielding at least one block, none of them with
\* the CID of the root; in both cases every block yielded had passed the size
\* test.
C24_EmptyThenMissingRoot ==
  carPc = "done" /\ Len(roots) = 1 =>
    /\ carResult = "empty CAR" <=> pulled = 0
    /\ carResult = "missing root block" <=>
         pulled > 0 /\ rootAt = 0 /\ rejected = NoBlock
    /\ carResult \in {"empty CAR", "missing root block"} =>
         /\ rejected = NoBlock
         /\ maxLen <= MAX_BLOCK_SIZE
         /\ blocks = pulled

C24_Witness ==
  /\ carPc = "done"
  /\ carResult = "missing root block"
  /\ pulled >= 2
  /\ maxLen = MAX_BLOCK_SIZE

\* C25: when the codec of the root CID has no decoder and the root block was
\* streamed with every block passing the size test, carStat returns: the
\* size is the sum of the lengths of the streamed blocks and blocks is their
\* number, whatever the bytes of the root block encode.
C25_UnknownCodecRawSum ==
  /\ carPc = "done"
  /\ Len(roots) = 1
  /\ rootCid.code \notin decoders
  /\ rootAt > 0
  /\ rejected = NoBlock
  => /\ carResult = "ok"
     /\ size = streamed
     /\ blocks = pulled

C25_Witness ==
  /\ carPc = "done"
  /\ carResult = "ok"
  /\ rootCid.code = "other"
  /\ pulled = 1
  /\ rawRootBlock.bytes.encLinks = <<100, 200>>
  /\ size = 50

\* The root block with the Tsize values of its links replaced by those of
\* `links`, a list of the same length.
WithTsizes(block, links) == [block EXCEPT !.bytes.encLinks = links]

\* C26: the outcome of carStat and the block count it returns are those it
\* gives for every CAR that differs from the one streamed only in the Tsize
\* values of the links of the root block: only the size can differ.
C26_OutcomeIgnoresTsize ==
  carPc = "done" /\ Len(roots) = 1 =>
    /\ rejected # NoBlock => carResult = "block too big"
    /\ rejected = NoBlock =>
         /\ blocks = pulled
         /\ \A links \in LinkLists :
              Len(links) = Len(rawRootBlock.bytes.encLinks) =>
                CarStatReturn(blocks, rootCid, WithTsizes(rawRootBlock, links), streamed).result
                  = carResult

C26_Witness ==
  /\ carPc = "done"
  /\ carResult = "ok"
  /\ rootCid.code = "dag-pb"
  /\ rawRootBlock.bytes.encLinks = <<NoTsize, 100>>
  /\ blocks = 2
  /\ size = 150

\* The polls the loop can make before its deadline, and one more.
PollBudget == (MAX_PIN_STATUS_CHECK_TIME \div PIN_STATUS_CHECK_INTERVAL) + 1

C28_UploadNotRewritten ==
  [][uploads # {} => uploads' = uploads /\ createOk' = createOk]_vars

C28_Witness ==
  /\ uploads = {[dagSize |-> dagSize, pins |-> upPins]}
  /\ recPc = "done"
  /\ incPc = "done"
  /\ usedStorage > 0
  /\ now > start
  /\ OkPins(toPins(cluster)) # {}

\* C21: when an item has been processed successfully, the URL of its upload
\* is recorded on the row it was read from: the row with the id and the
\* content CID of the candidate.
C21_UrlOnOwnRow ==
  \A i \in 1..Len(items) :
    items[i] = "ok" => backupUrls[i] = BackupUrl(Candidate(Row(i)))

\* The content a CID string addresses: its multihash and its codec.
Addressed(str) == <<str.hash, str.code>>

C23_StatusDerivedOnRead ==
  (pgFresh /\ pgResponse = "ok") =>
    pgStatus = getPinningAPIStatus(getPAPinRequest(pinTable, pgParam.value).pins)

\* A read that answers pinned after an earlier read of the same request
\* answered queued, pins having been written in between.
C23_Witness ==
  pgFresh /\ pgResponse = "ok" /\ pgPrev = "queued" /\ pgStatus = "pinned" /\ dbCalls >= 2

\* The rows of the pin table for a content and a peer.
RowsOf(cid, peer) == {r \in pinTable : r.content_cid = cid /\ r.peer_id = peer}

Incremented(user) ==
  LET Amount(u) == IF taskUser[u] = user /\ taskPc[u] = "done" /\ ~taskFailed[u]
                   THEN taskAmount[u] ELSE 0
  IN Amount(1) + Amount(2)

\* C30 as stated: once the tasks of two uploads of one user have completed,
\* the used storage of the user has grown by the sum of the two dagSize.
C30_GrownBySum ==
  (taskPc[1] = "done" /\ taskPc[2] = "done" /\ taskUser[1] = taskUser[2]) =>
    userStorage[taskUser[1]] = baseStorage[taskUser[1]] + taskAmount[1] + taskAmount[2]

\* C30, amended: whatever the interleaving, the used storage of a user has
\* grown by the sum of the dagSize of the tasks whose mutation succeeded; a
\* task whose mutation failed has completed and has added nothing.
C30_NoLostIncrement ==
  \A user \in Users : userStorage[user] = baseStorage[user] + Incremented(user)

\* Two uploads of one user, both tasks pushed before either ran, both
\* mutations successful.
C30_Witness ==
  /\ taskPc[1] = "done" /\ taskPc[2] = "done" /\ taskUser[1] = taskUser[2]
  /\ ~taskFailed[1] /\ ~taskFailed[2]
  /\ taskSeen[1] = baseStorage[taskUser[1]] /\ taskSeen[2] = baseStorage[taskUser[2]]
  /\ userStorage[taskUser[1]] = baseStorage[taskUser[1]] + taskAmount[1] + taskAmount[2]

\* C40: carStat retains the first block counted whose CID is the declared
\* root; a later block with the same CID does not replace it and is counted
\* in blocks and in the raw sum like any other; and the size returned for a
\* root with the raw or dag-cbor codec is the sum of the lengths of all the
\* blocks streamed.
C40_FirstRootRetained ==
  /\ carResult \in {"pending", "ok"} /\ carPc # "roots" => rawRootBlock = firstRoot
  /\ carPc = "stream" => blocks = pulled /\ size = streamed
  /\ (carPc = "done" /\ carResult = "ok" /\ rootCid.code \in {"raw", "dag-cbor"}) =>
       blocks = pulled /\ size = streamed

\* A raw root whose block comes first and again, with other bytes, later.
C40_Witness ==
  /\ carPc = "done" /\ carResult = "ok" /\ rootCid.code = "raw"
  /\ dupSeen /\ rootAt = 1 /\ blocks = 3
  /\ rawRootBlock.bytes.encLinks = <<>> /\ size = streamed

C33_OncePerRun ==
  /\ \A r \in DOMAIN yielded.out : r.status = "Pinned" /\ yielded.urls[r.request] = NoUrl
  /\ Cardinality(DOMAIN yielded.out) <= yielded.limit
  /\ \A r, q \in DOMAIN yielded.out :
       yielded.out[r].contentCid = yielded.out[q].contentCid => r = q

\* C34: at every progress report of backupPins the number of CIDs backed up
\* successfully is at most the number of CIDs processed, which is the number
\* of items attempted so far.
C34_SuccessfulAtMostProcessed ==
  bkPc = "next" => totalSuccessful <= totalProcessed /\ totalProcessed = taken

\* C32: when the size of the DAG is known and above the maximum, the export
\* fails with ERR_TOO_BIG without calling ipfs.dagExport, the item fails and
\* no backup URL is recorded for it; when the size is unknown, or known and
\* not above the maximum, ipfs.dagExport is called.
C32_TooBigNotExported ==
  lastExport.item # 0 =>
    LET known == lastExport.dag.code \in {"raw", "dag-pb"}
        above == lastExport.dag.bytes > lastExport.max
    IN /\ (known /\ above) =>
            /\ lastExport.outcome = "ERR_TOO_BIG"
            /\ items[lastExport.item] = "failed"
            /\ backupUrls[lastExport.item] = NoUrl
       /\ ~(known /\ above) => lastExport.outcome = "dagExport"

\* A dag-pb DAG above the default maximum has failed its item, after a
\* dag-cbor DAG of the same size was exported and its item backed up.
C32_Witness ==
  /\ lastExport.outcome = "ERR_TOO_BIG" /\ lastExport.dag.code = "dag-pb"
  /\ lastExport.max = MAX_DAG_SIZE /\ lastExport.item = 2
  /\ items[2] = "failed" /\ items[1] = "ok"


\* C35: pinPost validates the body before any side effect: a missing cid, an
\* unparseable cid, a non-string name, a non-array origins, or a meta that
\* is not an object of string values each produce a 400 response with the
\* matching details, the first failing check in that order deciding, and
\* nothing is called on the cluster or on the persistence layer.
C35_MalformedRejected ==
  LET cidBad == normalizeCid(ppData.cid) = InvalidCidError
      nameBad == ppData.name.t \notin {"undefined", "string"}
      originsBad == ppData.origins.t \notin {"undefined", "array"}
      metaBad == ppData.meta.t # "undefined"
                   /\ (ppData.meta.t # "object" \/ ppData.meta.items # {"string"})
      expected ==
        IF ppData.cid.t = "undefined" THEN {"CID is required"}
        ELSE IF ppData.cid = JsString("") THEN {"CID is required", "Invalid cid"}
        ELSE IF cidBad THEN {"Invalid cid"}
        ELSE IF nameBad THEN {"Name should be a string"}
        ELSE IF originsBad THEN {"Origins should be an array of strings"}
        ELSE {"Meta should be an object with string values"}
  IN  (cidBad \/ nameBad \/ originsBad \/ metaBad) =>
        /\ ppCalls = {} /\ ppTask = "none" /\ ppContent = "none"
        /\ ppPc = "returned" => ppResponse.status = 400 /\ ppResponse.details \in expected

C38_ContentBeforeUpsert == ~ppIssuedEarly


\* C36: pinsGet never throws on a malformed filter: a match outside exact,
\* iexact, partial, ipartial is answered UNPERMITTED_MATCH, a match that is
\* no string INVALID_MATCH, a status that is no array INVALID_STATUS, and a
\* status array with a value outside queued, pinning, pinned, failed
\* UNPERMITTED_STATUS.
C36_FiltersRejected ==
  LET p == getParams
      details == getResponse.details
      earlier == (Truthy(p.cid) /\ normalizeCid(p.cid) = InvalidCidError)
                   \/ p.name.t \notin {"undefined", "string"}
      matchBad == p.match.t # "undefined" /\ ~OptionsInclude(MATCH_OPTIONS, p.match)
      statusBad == p.status.t # "undefined"
                     /\ (~IsArray(p.status) \/ \E v \in p.status.items : v \notin STATUS_OPTIONS)
  IN  getResponse # NoResponse =>
        /\ getResponse.status # 500
        /\ (~earlier /\ matchBad) =>
             /\ getResponse.status = 400
             /\ details = IF p.match.t = "string"
                          THEN "Match should be \"exact\", \"iexact\", \"partial\", or \"ipartial\""
                          ELSE "Match should be a string (i.e. \"exact\", \"iexact\", \"partial\", \"ipartial\")"
        /\ (~earlier /\ ~matchBad /\ statusBad) =>
             /\ getResponse.status = 400
             /\ details = IF IsArray(p.status)
                          THEN "Status should be \"queued\", \"pinning\", \"pinned\", or \"failed\""
                          ELSE "Status should be an array of strings"

====
